---------------------------- MODULE Spec2Model ----------------------------
(***************************************************************************)
(* A model of obsidian-asana-sync: the task line codec, the per-source    *)
(* reconciliation pass (syncProject / syncAllProjects) and the plugin's   *)
(* scheduling state (runSync, the written-by-sync marker set, the modify  *)
(* handler).                                                               *)
(*                                                                         *)
(* Text.  A JavaScript string is modelled as a sequence of tokens, each   *)
(* token a TLA+ string standing for the characters it spells.  A line is  *)
(* a token sequence, a document is a sequence of lines (the result of     *)
(* content.split("\n"); join("\n") is its inverse because no token holds  *)
(* a line break).  The regular expressions are matched token by token     *)
(* with the priorities of a backtracking matcher (lazy groups shortest    *)
(* first, optional groups tried before they are skipped).                 *)
(***************************************************************************)
EXTENDS Naturals, Sequences, FiniteSets, TLC

(***************************************************************************)
(* Tokens                                                                  *)
(***************************************************************************)
SP == " "
\* U+1F4C5, the due-date marker, and U+1F464, the assignee marker
DUE == "<calendar>"
WHO == "<person>"
COPEN == "<!--"
CCLOSE == "-->"
ASANA == "asana:"
SYNCKEY == "asana_last_sync:"
UNSECTIONED == <<"(Unsectioned)">>

\* \d{4}-\d{2}-\d{2}
Dates == {"2024-01-15", "2024-02-01"}
\* \w
WordChars == {"a", "b", "x", "X", "1", "2", "3"}

IsSpace(t) == t = SP
IsWord(t) == t \in WordChars

\* Op applied to the value of v, which is evaluated once
With(v, Op(_)) == CHOOSE r \in {Op(x) : x \in {v}} : TRUE

Min(S) == CHOOSE m \in S : \A o \in S : m <= o
Max(S) == CHOOSE m \in S : \A o \in S : m >= o

\* s.substring(i - 1, j) on tokens (1-based, inclusive; empty when j < i)
Sub(s, i, j) == IF j < i THEN <<>> ELSE SubSeq(s, i, j)

\* the index just after the longest run of spaces (of word tokens) that starts at i
RECURSIVE SkipSpace(_, _)
SkipSpace(s, i) ==
  IF i <= Len(s) /\ IsSpace(s[i]) THEN SkipSpace(s, i + 1) ELSE i

RECURSIVE SkipWord(_, _)
SkipWord(s, i) ==
  IF i <= Len(s) /\ IsWord(s[i]) THEN SkipWord(s, i + 1) ELSE i

At(s, i, t) == i <= Len(s) /\ s[i] = t

\* String.prototype.trim
Trim(s) ==
  With(s, LAMBDA v :
    With({j \in 1..Len(v) : ~IsSpace(v[j])}, LAMBDA solid :
      IF solid = {} THEN <<>> ELSE Sub(v, Min(solid), Max(solid))))

\* String.prototype.startsWith
StartsWith(s, p) == Len(s) >= Len(p) /\ Sub(s, 1, Len(p)) = p

(***************************************************************************)
(* The task line codec                                                     *)
(***************************************************************************)
NoMatch == [ok |-> FALSE]

\* \s*$
MatchEnd(s, i) == SkipSpace(s, i) = Len(s) + 1

\* (?:\s*<!--\s*asana:(\w+)\s*-->) at position i
GidGroup(s, i) ==
  With(SkipSpace(s, i), LAMBDA o :
    With(SkipSpace(s, o + 1), LAMBDA k :
      With(SkipWord(s, k + 1), LAMBDA e :
        With(SkipSpace(s, e), LAMBDA c :
          IF At(s, o, COPEN) /\ At(s, k, ASANA) /\ e > k + 1 /\ At(s, c, CCLOSE)
            THEN [ok |-> TRUE, gid |-> Sub(s, k + 1, e - 1), next |-> c + 1]
            ELSE NoMatch))))

\* (?:\s*<!--\s*asana:(\w+)\s*-->)?\s*$ from position i
TailGid(s, i) ==
  With(GidGroup(s, i), LAMBDA g :
    IF g.ok /\ MatchEnd(s, g.next) THEN [ok |-> TRUE, gid |-> g.gid]
    ELSE IF MatchEnd(s, i) THEN [ok |-> TRUE, gid |-> <<>>]
    ELSE NoMatch)

\* the assignee group skipped
TailNoAssignee(s, i) ==
  With(TailGid(s, i), LAMBDA g :
    IF g.ok THEN [ok |-> TRUE, assignee |-> <<>>, gid |-> g.gid] ELSE NoMatch)

\* (?:\s*WHO\s*(.+?))? followed by the identifier group and the end, from position i.
\* After WHO, \s* is greedy and gives spaces back on failure, and (.+?) grows from
\* one token: the capture starts as late as a match allows and ends as early.
TailAssignee(s, i) ==
  With(SkipSpace(s, i), LAMBDA m :
    With(SkipSpace(s, m + 1), LAMBDA sp :
      With(IF At(s, m, WHO) THEN {e \in (m + 1)..Len(s) : TailGid(s, e + 1).ok} ELSE {},
           LAMBDA ends :
        IF ends = {} THEN TailNoAssignee(s, i)
        ELSE With(IF sp <= Max(ends) THEN sp ELSE Max(ends), LAMBDA a :
               With(Min({e \in ends : e >= a}), LAMBDA e :
                 [ok |-> TRUE, assignee |-> Sub(s, a, e), gid |-> TailGid(s, e + 1).gid])))))

\* the due-date group skipped
TailNoDue(s, i) ==
  With(TailAssignee(s, i), LAMBDA r :
    IF r.ok THEN [ok |-> TRUE, due |-> <<>>, assignee |-> r.assignee, gid |-> r.gid]
    ELSE NoMatch)

\* (?:\s*DUE\s*(\d{4}-\d{2}-\d{2}))? followed by the rest, from position i
TailDue(s, i) ==
  With(SkipSpace(s, i), LAMBDA m :
    With(SkipSpace(s, m + 1), LAMBDA d :
      With(IF At(s, m, DUE) /\ d <= Len(s) /\ s[d] \in Dates
             THEN TailAssignee(s, d + 1) ELSE NoMatch,
           LAMBDA r :
        IF r.ok
          THEN [ok |-> TRUE, due |-> <<s[d]>>, assignee |-> r.assignee, gid |-> r.gid]
          ELSE TailNoDue(s, i))))

\* ^(\s*- \[)([ xX])(\] ) with p the index of the dash
HasCheckbox(line, p) ==
  /\ Len(line) >= p + 5
  /\ Sub(line, p, p + 2) = <<"-", SP, "[">>
  /\ line[p + 3] \in {SP, "x", "X"}
  /\ Sub(line, p + 4, p + 5) = <<"]", SP>>

\* line.match(TASK_LINE_REGEX): the capture groups 2, 4, 5, 6 and 7.
\* The title (.+?) ends at the first token after which the rest of the line matches.
TASK_LINE_REGEX(line) ==
  With(SkipSpace(line, 1), LAMBDA p :
    With(IF HasCheckbox(line, p)
           THEN {e \in (p + 6)..Len(line) : TailDue(line, e + 1).ok} ELSE {},
         LAMBDA ends :
      IF ends = {} THEN NoMatch
      ELSE With(Min(ends), LAMBDA e :
             With(TailDue(line, e + 1), LAMBDA rest :
               [ok |-> TRUE, box |-> line[p + 3], title |-> Sub(line, p + 6, e),
                due |-> rest.due, assignee |-> rest.assignee, gid |-> rest.gid]))))

\* line.match(ASANA_GID_REGEX): the leftmost identifier comment of the line
ASANA_GID_REGEX(line) ==
  With({i \in 1..Len(line) : At(line, i, COPEN) /\ GidGroup(line, i).ok}, LAMBDA hits :
    IF hits = {} THEN NoMatch
    ELSE [ok |-> TRUE, gid |-> GidGroup(line, Min(hits)).gid])

\* null is the empty string where the code only tests truthiness
NoTask == [ok |-> FALSE]

parseTaskLine(line, lineNumber) ==
  With(TASK_LINE_REGEX(line), LAMBDA m :
    IF ~m.ok THEN NoTask
    ELSE [ok |-> TRUE, line |-> line, lineNumber |-> lineNumber,
          completed |-> m.box \in {"x", "X"}, name |-> Trim(m.title),
          asanaGid |-> m.gid, dueDate |-> m.due, assignee |-> Trim(m.assignee)])

formatTaskLine(task, showDueDates, showAssignees) ==
  <<"-", SP, "[", IF task.completed THEN "x" ELSE SP, "]", SP>> \o task.name
    \o (IF showDueDates /\ task.due_on # <<>> THEN <<SP, DUE, SP>> \o task.due_on ELSE <<>>)
    \o (IF showAssignees /\ task.assignee # <<>> THEN <<SP, WHO, SP>> \o task.assignee ELSE <<>>)
    \o <<SP, COPEN, SP, ASANA>> \o task.gid \o <<SP, CCLOSE>>

(***************************************************************************)
(* JavaScript Map: insertion-ordered entries, a later set of a key keeps  *)
(* the key's place and replaces its value                                  *)
(***************************************************************************)
MapHas(m, k) == \E j \in DOMAIN m : m[j].key = k
MapGet(m, k) == m[CHOOSE j \in DOMAIN m : m[j].key = k].val
MapSet(m, k, v) ==
  IF MapHas(m, k)
    THEN [j \in DOMAIN m |-> IF m[j].key = k THEN [key |-> k, val |-> v] ELSE m[j]]
    ELSE Append(m, [key |-> k, val |-> v])

\* "for (const task of asanaTasks) asanaTaskMap.set(task.gid, task)" from task i on
RECURSIVE TaskMapFrom(_, _, _)
TaskMapFrom(tasks, i, m) ==
  IF i > Len(tasks) THEN m
  ELSE With(MapSet(m, tasks[i].gid, tasks[i]), LAMBDA next : TaskMapFrom(tasks, i + 1, next))

asanaTaskMap(asanaTasks) == With(asanaTasks, LAMBDA tasks : TaskMapFrom(tasks, 1, <<>>))

(***************************************************************************)
(* The document model                                                      *)
(***************************************************************************)
FENCE == <<"-", "-", "-">>
H1 == <<"#", SP>>
H2 == <<"#", "#", SP>>

\* line.replace(/^## /, "").trim()
SectionNameOf(line) == Trim(Sub(line, 4, Len(line)))

SectionHeader(sectionName) == H2 \o sectionName

\* sections.get(name).push(task), the entry made first when it is missing
MapPush(m, k, v) == MapSet(m, k, IF MapHas(m, k) THEN Append(MapGet(m, k), v) ELSE <<v>>)

\* one turn of the loop of parseNoteContent, on line i (counted from 1)
ParseStep(line, i, st) ==
  IF i = 1 /\ line = FENCE
    THEN [st EXCEPT !.inFrontmatter = TRUE, !.frontmatter = Append(@, line)]
  ELSE IF st.inFrontmatter
    THEN [st EXCEPT !.frontmatter = Append(@, line),
                    !.inFrontmatter = (line # FENCE),
                    !.frontmatterDone = (@ \/ line = FENCE)]
  ELSE IF st.frontmatterDone /\ ~st.headerDone /\ StartsWith(line, H1)
    THEN [st EXCEPT !.header = line, !.headerDone = TRUE]
  ELSE IF st.frontmatterDone /\ ~st.headerDone /\ Trim(line) = <<>>
    THEN st
  ELSE IF StartsWith(line, H2)
    THEN With(SectionNameOf(line), LAMBDA name :
           [st EXCEPT !.currentSection = name,
                      !.sections = IF MapHas(@, name) THEN @ ELSE MapSet(@, name, <<>>)])
  ELSE With(parseTaskLine(line, i - 1), LAMBDA parsed :
         IF parsed.ok
           THEN [st EXCEPT !.tasks = Append(@, parsed),
                           !.sections = MapPush(@, st.currentSection, parsed)]
           ELSE st)

RECURSIVE ParseWalk(_, _, _)
ParseWalk(lines, i, st) ==
  IF i > Len(lines) THEN st
  ELSE With(lines[i], LAMBDA line :
         With(ParseStep(line, i, st), LAMBDA next : ParseWalk(lines, i + 1, next)))

parseNoteContent(content) ==
  With(content, LAMBDA lines :
    With([tasks |-> <<>>, sections |-> <<>>, currentSection |-> UNSECTIONED,
          frontmatter |-> <<>>, header |-> <<>>, inFrontmatter |-> FALSE,
          frontmatterDone |-> FALSE, headerDone |-> FALSE], LAMBDA start :
      With(ParseWalk(lines, 1, start), LAMBDA st :
        [frontmatter |-> st.frontmatter, header |-> st.header, tasks |-> st.tasks,
         sections |-> st.sections, rawLines |-> lines])))

\* new Date().toISOString() at clock value t, in quotes
Timestamp(t) == "T" \o ToString(t)
SyncLine(t) == <<SYNCKEY, SP, Timestamp(t)>>

\* the section a task is filed under for the list projectGid
SectionOf(task, projectGid) ==
  With({j \in DOMAIN task.memberships : task.memberships[j].project = projectGid},
       LAMBDA own :
    IF own # {} /\ task.memberships[Min(own)].section # <<>>
      THEN task.memberships[Min(own)].section
      ELSE UNSECTIONED)

\* Map<section name, tasks> in first-appearance order, from task i on
RECURSIVE GroupBySection(_, _, _, _)
GroupBySection(tasks, i, projectGid, m) ==
  IF i > Len(tasks) THEN m
  ELSE With(MapPush(m, SectionOf(tasks[i], projectGid), tasks[i]), LAMBDA next :
         GroupBySection(tasks, i + 1, projectGid, next))

FormatAll(tasks, showDueDates, showAssignees) ==
  [j \in DOMAIN tasks |-> formatTaskLine(tasks[j], showDueDates, showAssignees)]

\* "for (const [sectionName, sectionTasks] of sectionMap)" from group i on
RECURSIVE WriteSections(_, _, _, _)
WriteSections(groups, i, opts, lines) ==
  IF i > Len(groups) THEN lines
  ELSE With(lines
              \o (IF groups[i].key # UNSECTIONED
                    THEN <<SectionHeader(groups[i].key), <<>>>> ELSE <<>>)
              \o FormatAll(groups[i].val, opts.showDueDates, opts.showAssignees)
              \o << <<>> >>,
            LAMBDA next : WriteSections(groups, i + 1, opts, next))

generateNoteContent(project, asanaTasks, opts, t) ==
  LET Shown(task) == opts.showCompletedTasks \/ ~task.completed
  IN  With(SelectSeq(asanaTasks, Shown), LAMBDA filteredTasks :
        With(GroupBySection(filteredTasks, 1, project.projectGid, <<>>), LAMBDA sectionMap :
          WriteSections(sectionMap, 1, opts,
            << FENCE,
               <<"asana_project_gid:", SP, project.projectGid>>,
               <<"asana_is_my_tasks:", SP, IF project.isMyTasks THEN "true" ELSE "false">>,
               SyncLine(t),
               FENCE,
               <<>>,
               H1 \o project.projectName,
               <<>> >>)))

(***************************************************************************)
(* syncProject, Step 2: the rewrite of the existing lines                  *)
(***************************************************************************)
\* a filter that hides nothing: with it C8 fails
HideCompletedNever(opts, task) == FALSE

\* "if (!settings.showCompletedTasks && asanaTask.completed)"
HideCompleted(opts, task) == ~opts.showCompletedTasks /\ task.completed

\* a rewrite that drops the line of a task the list does not report: with it C2 fails
RewriteLineDropsMissing(line, taskMap, opts) ==
  With(ASANA_GID_REGEX(line), LAMBDA gidMatch :
    IF ~gidMatch.ok
      THEN [out |-> <<line>>, seen |-> {}, updated |-> 0]
    ELSE IF ~MapHas(taskMap, gidMatch.gid)
      THEN [out |-> <<>>, seen |-> {gidMatch.gid}, updated |-> 0]
    ELSE With(MapGet(taskMap, gidMatch.gid), LAMBDA asanaTask :
           IF HideCompleted(opts, asanaTask)
             THEN [out |-> <<>>, seen |-> {gidMatch.gid}, updated |-> 0]
             ELSE [out |-> <<formatTaskLine(asanaTask, opts.showDueDates,
                                            opts.showAssignees)>>,
                   seen |-> {gidMatch.gid}, updated |-> 1]))

\* a rewrite that keeps the text of a line whose task the list reports: with it C20 fails
RewriteLineKeeps(line, taskMap, opts) ==
  With(ASANA_GID_REGEX(line), LAMBDA gidMatch :
    IF ~gidMatch.ok
      THEN [out |-> <<line>>, seen |-> {}, updated |-> 0]
    ELSE IF ~MapHas(taskMap, gidMatch.gid)
      THEN [out |-> <<line>>, seen |-> {gidMatch.gid}, updated |-> 0]
    ELSE With(MapGet(taskMap, gidMatch.gid), LAMBDA asanaTask :
           IF HideCompleted(opts, asanaTask)
             THEN [out |-> <<>>, seen |-> {gidMatch.gid}, updated |-> 0]
             ELSE [out |-> <<line>>, seen |-> {gidMatch.gid}, updated |-> 1]))

\* a rewrite that counts a hidden line as updated: with it C23 fails
RewriteLineCountsHidden(line, taskMap, opts) ==
  With(ASANA_GID_REGEX(line), LAMBDA gidMatch :
    IF ~gidMatch.ok
      THEN [out |-> <<line>>, seen |-> {}, updated |-> 0]
    ELSE IF ~MapHas(taskMap, gidMatch.gid)
      THEN [out |-> <<line>>, seen |-> {gidMatch.gid}, updated |-> 0]
    ELSE With(MapGet(taskMap, gidMatch.gid), LAMBDA asanaTask :
           IF HideCompleted(opts, asanaTask)
             THEN [out |-> <<>>, seen |-> {gidMatch.gid}, updated |-> 1]
             ELSE [out |-> <<formatTaskLine(asanaTask, opts.showDueDates,
                                            opts.showAssignees)>>,
                   seen |-> {gidMatch.gid}, updated |-> 1]))

\* An existing line outside the frontmatter that is no section heading:
\* the lines it becomes, the identifier it marks as seen, whether it counts as updated
RewriteLine(line, taskMap, opts) ==
  With(ASANA_GID_REGEX(line), LAMBDA gidMatch :
    IF ~gidMatch.ok
      THEN [out |-> <<line>>, seen |-> {}, updated |-> 0]
    ELSE IF ~MapHas(taskMap, gidMatch.gid)
      THEN [out |-> <<line>>, seen |-> {gidMatch.gid}, updated |-> 0]
    ELSE With(MapGet(taskMap, gidMatch.gid), LAMBDA asanaTask :
           IF HideCompleted(opts, asanaTask)
             THEN [out |-> <<>>, seen |-> {gidMatch.gid}, updated |-> 0]
             ELSE [out |-> <<formatTaskLine(asanaTask, opts.showDueDates,
                                            opts.showAssignees)>>,
                   seen |-> {gidMatch.gid}, updated |-> 1]))

\* a closing fence that is copied and nothing else: with it C24 fails
CloseFrontmatterOnly(newLines, updatedFrontmatter, line, t) == Append(newLines, line)

\* "if (!updatedFrontmatter) { newLines.push(`asana_last_sync: ...`); } newLines.push(line);"
CloseFrontmatter(newLines, updatedFrontmatter, line, t) ==
  IF updatedFrontmatter THEN Append(newLines, line) ELSE newLines \o <<SyncLine(t), line>>

\* one turn of the loop over parsed.rawLines, on line i (counted from 1)
RewriteStep(line, i, st, taskMap, opts, t) ==
  IF i = 1 /\ line = FENCE
    THEN [st EXCEPT !.inFrontmatter = TRUE, !.newLines = Append(@, line)]
  ELSE IF st.inFrontmatter /\ line = FENCE
    THEN [st EXCEPT !.inFrontmatter = FALSE,
                    !.updatedFrontmatter = TRUE,
                    !.newLines = CloseFrontmatter(@, st.updatedFrontmatter, line, t)]
  ELSE IF st.inFrontmatter /\ StartsWith(line, <<SYNCKEY>>)
    THEN [st EXCEPT !.updatedFrontmatter = TRUE, !.newLines = Append(@, SyncLine(t))]
  ELSE IF st.inFrontmatter
    THEN [st EXCEPT !.newLines = Append(@, line)]
  ELSE IF StartsWith(line, H2)
    THEN [st EXCEPT !.currentSection = SectionNameOf(line), !.newLines = Append(@, line)]
  ELSE With(RewriteLine(line, taskMap, opts), LAMBDA r :
         [st EXCEPT !.newLines = @ \o r.out,
                    !.seenGids = @ \cup r.seen,
                    !.updated = @ + r.updated])

RECURSIVE RewriteWalk(_, _, _, _, _, _)
RewriteWalk(rawLines, i, st, taskMap, opts, t) ==
  IF i > Len(rawLines) THEN st
  ELSE With(rawLines[i], LAMBDA line :
         With(RewriteStep(line, i, st, taskMap, opts, t), LAMBDA next :
           RewriteWalk(rawLines, i + 1, next, taskMap, opts, t)))

Rewrite(rawLines, asanaTasks, opts, t) ==
  With(asanaTaskMap(asanaTasks), LAMBDA taskMap :
    With([newLines |-> <<>>, seenGids |-> {}, updated |-> 0, inFrontmatter |-> FALSE,
          updatedFrontmatter |-> FALSE, currentSection |-> UNSECTIONED], LAMBDA start :
      RewriteWalk(rawLines, 1, start, taskMap, opts, t)))

(***************************************************************************)
(* syncProject, Step 3: the tasks that are not in the note yet             *)
(***************************************************************************)
NewTasks(asanaTasks, seenGids, opts) ==
  LET IsNew(task) == task.gid \notin seenGids /\ ~HideCompleted(opts, task)
  IN  SelectSeq(asanaTasks, IsNew)

\* newLines.findIndex((l) => l.trim() === sectionHeader), 0 when there is none
SectionIndex(newLines, sectionName) ==
  With({j \in DOMAIN newLines : Trim(newLines[j]) = SectionHeader(sectionName)}, LAMBDA at :
    IF at = {} THEN 0 ELSE Min(at))

\* the end of the section that starts at sectionIndex: the next "## " line or the end
InsertIndex(newLines, sectionIndex) ==
  With({j \in (sectionIndex + 1)..Len(newLines) : StartsWith(newLines[j], H2)},
       LAMBDA next :
    IF next = {} THEN Len(newLines) + 1 ELSE Min(next))

\* newLines.splice(at - 1, 0, ...taskLines)
Splice(newLines, at, taskLines) ==
  Sub(newLines, 1, at - 1) \o taskLines \o Sub(newLines, at, Len(newLines))

\* a placement that adds no heading for a new section: with it C25 fails
PlaceGroupWithoutHeading(newLines, sectionName, tasks, opts) ==
  With(SectionIndex(newLines, sectionName), LAMBDA sectionIndex :
    With(FormatAll(tasks, opts.showDueDates, opts.showAssignees), LAMBDA taskLines :
      IF sectionIndex > 0 /\ sectionName # UNSECTIONED
        THEN With(InsertIndex(newLines, sectionIndex), LAMBDA insertIdx :
               Splice(newLines, insertIdx, taskLines))
      ELSE newLines \o taskLines))

\* one turn of "for (const [sectionName, tasks] of newTasksBySection)"
PlaceGroup(newLines, sectionName, tasks, opts) ==
  With(SectionIndex(newLines, sectionName), LAMBDA sectionIndex :
    With(FormatAll(tasks, opts.showDueDates, opts.showAssignees), LAMBDA taskLines :
      IF sectionIndex > 0 /\ sectionName # UNSECTIONED
        THEN With(InsertIndex(newLines, sectionIndex), LAMBDA insertIdx :
               Splice(newLines, insertIdx, taskLines))
      ELSE IF sectionName # UNSECTIONED
        THEN newLines \o << <<>>, SectionHeader(sectionName), <<>> >> \o taskLines
      ELSE newLines \o taskLines))

\* "for (const [sectionName, tasks] of newTasksBySection)" from group i on
RECURSIVE PlaceGroups(_, _, _, _)
PlaceGroups(newLines, groups, i, opts) ==
  IF i > Len(groups) THEN newLines
  ELSE With(PlaceGroup(newLines, groups[i].key, groups[i].val, opts), LAMBDA next :
         PlaceGroups(next, groups, i + 1, opts))

AppendNew(newLines, newTasks, projectGid, opts) ==
  With(GroupBySection(newTasks, 1, projectGid, <<>>), LAMBDA newTasksBySection :
    PlaceGroups(newLines, newTasksBySection, 1, opts))

\* Steps 2 and 3 together: the new content and the counts
Merge(rawLines, asanaTasks, project, opts, t) ==
  With(Rewrite(rawLines, asanaTasks, opts, t), LAMBDA w :
    With(NewTasks(asanaTasks, w.seenGids, opts), LAMBDA newTasks :
      [newLines |-> AppendNew(w.newLines, newTasks, project.projectGid, opts),
       rewritten |-> w.newLines,
       newTasks |-> newTasks,
       updated |-> w.updated,
       added |-> Len(newTasks)]))

\* Step 1: the identifier -> ParsedTask map of the note, in first-appearance order
RECURSIVE ExistingFrom(_, _, _)
ExistingFrom(tasks, i, m) ==
  IF i > Len(tasks) THEN m
  ELSE With(IF tasks[i].asanaGid # <<>> THEN MapSet(m, tasks[i].asanaGid, tasks[i]) ELSE m,
            LAMBDA next : ExistingFrom(tasks, i + 1, next))

existingTaskMap(parsed) == With(parsed.tasks, LAMBDA tasks : ExistingFrom(tasks, 1, <<>>))

\* a comparison that never finds a difference: with it C3 fails
NeedsPushNever(obsidianTask, asanaTask) == FALSE

\* "if (obsidianTask.completed !== asanaTask.completed)"
NeedsPush(obsidianTask, asanaTask) == obsidianTask.completed # asanaTask.completed

\* the entries of the note's map, from entry k on, that Step 1 pushes
Conflicts(existing, k, taskMap) ==
  {j \in k..Len(existing) :
     /\ MapHas(taskMap, existing[j].key)
     /\ NeedsPush(existing[j].val, MapGet(taskMap, existing[j].key))}


(***************************************************************************)
(* Bounds and the values the initial states draw from                      *)
(***************************************************************************)
\* triggers of runSync (command, ribbon, interval, startup timer) in one behaviour
MaxTriggers == 2
\* lines of an initial document drawn freely from BodyPool
MaxBody == 1
\* changes made to the remote lists by other Asana clients in one behaviour
MaxRemoteEdits == 1
\* checkboxes the user ticks or unticks in one behaviour
MaxUserEdits == 1
\* lines of the longest note: the positions a user edit may touch
MaxLines == 12
\* checkboxes the user ticks or unticks while only the change detector is at work
MaxFlips == 3
\* edits of the interval setting in one behaviour
MaxChanges == 3
\* edits of a note (ticks, lines removed, lines added) while scans are compared
MaxScanEdits == 4

P1 == [projectGid |-> "p1", projectName |-> <<"a">>, notePath |-> <<"Asana", "a.md">>,
       isMyTasks |-> FALSE, userTaskListGid |-> ""]
P2 == [projectGid |-> "u1", projectName |-> <<"My", SP, "Tasks">>,
       notePath |-> <<"Asana", "My Tasks.md">>, isMyTasks |-> TRUE,
       userTaskListGid |-> "u1"]
Lists == {"p1", "u1"}
Paths == {P1.notePath, P2.notePath}

\* the list syncProject fetches for a source
ListOf(project) ==
  IF project.isMyTasks /\ project.userTaskListGid # "" THEN project.userTaskListGid
  ELSE project.projectGid

\* notePath.substring(0, notePath.lastIndexOf("/"))
FolderOf(notePath) == Sub(notePath, 1, Len(notePath) - 1)

Task(gid, name, completed, due, assignee, memberships) ==
  [gid |-> gid, name |-> name, completed |-> completed, due_on |-> due,
   assignee |-> assignee, memberships |-> memberships]

InSection(projectGid, name) == [project |-> projectGid, section |-> name]

\* remote task 1: in section "a" of the project
TaskOne(c) == Task(<<"1">>, <<"a">>, c, <<>>, <<>>, <<InSection("p1", <<"a">>)>>)
\* remote task 2: due date and assignee; member of another project first
TaskTwo(c, ms) == Task(<<"2">>, <<"b">>, c, <<"2024-01-15">>, <<"a", SP, "b">>, ms)
TaskTwoMemberships ==
  { <<InSection("p9", <<"a">>)>>,
    <<InSection("p9", <<"a">>), InSection("p1", <<"b">>)>> }

RemotePool ==
  {<<>>}
    \cup {<<TaskOne(c)>> : c \in BOOLEAN}
    \cup {<<TaskOne(c[1]), TaskTwo(c[2], ms)>> : c \in BOOLEAN \X BOOLEAN,
                                                  ms \in TaskTwoMemberships}

Comment(gid) == <<SP, COPEN, SP, ASANA>> \o gid \o <<SP, CCLOSE>>
Box(c) == <<"-", SP, "[", c, "]", SP>>

\* lines of a note: written by the plugin, edited or typed by the user
BodyPool ==
  { Box(SP) \o <<"a">> \o Comment(<<"1">>),
    Box("x") \o <<"a">> \o Comment(<<"1">>),
    Box(SP) \o <<"b", SP, DUE, SP, "2024-01-15", SP, WHO, SP, "a", SP, "b">>
       \o Comment(<<"2">>),
    Box("X") \o <<"b", SP, "a">> \o Comment(<<"3">>),
    Box(SP) \o <<"b">>,
    <<"a">> \o Comment(<<"1">>),
    Box(SP) \o <<"a">> \o Comment(<<"1">>) \o <<SP, "b">>,
    <<>>,
    H2 \o <<"a">>,
    H2 \o <<"b">> }

Bodies == UNION {[1..n -> BodyPool] : n \in 1..MaxBody}

\* whole notes: sections with tasks, a note as generateNoteContent lays it out
NotePool ==
  { << H2 \o <<"a">>, <<>>, H2 \o <<"b">>, Box("x") \o <<"a">> \o Comment(<<"1">>) >>,
    << Box("X") \o <<"b", SP, "a">> \o Comment(<<"3">>),
       Box("x") \o <<"a">> \o Comment(<<"1">>),
       Box(SP) \o <<"b">> \o Comment(<<"2">>) >>,
    << FENCE, <<"asana_project_gid:", SP, "p1">>, SyncLine(0), FENCE, <<>>,
       H1 \o <<"a">>, <<>>,
       H2 \o <<"a">>, <<>>, Box(SP) \o <<"a">> \o Comment(<<"1">>), <<>> >>,
    << FENCE, <<"asana_project_gid:", SP, "p1">>, FENCE,
       Box(SP) \o <<"a">> \o Comment(<<"1">>), Box(SP) \o <<"b">> >>,
    << FENCE, SyncLine(0), H2 \o <<"a">>, Box("x") \o <<"a">> \o Comment(<<"3">>) >>,
    << H2 \o <<"a">>, <<>>, H2 \o <<"b">>, Box(SP) \o <<"b">> >>,
    << H2 \o <<"a">>, <<SP>> \o H2 \o <<"b">> >> }

DocPool == Bodies \cup NotePool

OptionPool == [showDueDates : BOOLEAN, showAssignees : BOOLEAN, showCompletedTasks : BOOLEAN]

NoFile == [exists |-> FALSE, content |-> <<>>]
File(content) == [exists |-> TRUE, content |-> content]


(***************************************************************************)
(* State                                                                   *)
(***************************************************************************)
VARIABLES
  settings,            \* AsanaSyncSettings: the token, the sources, the display options
  files,               \* the vault: path -> [exists, content]
  folders,             \* the vault's folders
  remote,              \* Asana: list gid -> the tasks the list reports, in order
  now,                 \* the clock new Date() reads
  isSyncing,           \* AsanaSyncPlugin.isSyncing
  fileModifiedBySync,  \* AsanaSyncPlugin.fileModifiedBySync
  inflight,            \* pending vault "modify" events and pending unmark timeouts, oldest first
  timers,              \* the pending timeouts handleFileModify has set: [id, path, origin]
  debounceKey,         \* path -> the handle kept in the property "asana-sync-debounce-<path>",
                       \* 0 when the property is absent
  debounce,            \* path -> "none", or who wrote the change whose event set the pending
                       \* debounce timeout: "user" or "sync"
  lastKnownState,      \* AsanaSyncPlugin.lastKnownState
  scans,               \* the processCheckboxChanges calls that are suspended at an await
  runs,                \* the runSync calls that are suspended at an await
  nTriggers,           \* calls of runSync so far
  remoteEdits,         \* changes by other Asana clients so far
  userEdits,           \* edits of notes by the user so far
  notices,             \* the Notices shown so far
  settled,             \* history: path -> the last pass of the source ended normally on an
                       \* existing note and the list has not changed since that pass began
  lastPass,            \* history: the syncProject call that ended last
  lastRun,             \* history: the runSync call that ended last
  lastScan,            \* history: the processCheckboxChanges call that ended last
  observed,            \* history: path -> the mapping the latest read of a scan parsed
  bursts,              \* history: path -> the timeouts set with none pending (begun) and the
                       \* timeouts that fired (scanned)
  flip,                \* history: the latest checkbox of an identified line the user flipped,
                       \* and whether an update with its value was issued since
  syncIntervalId,      \* AsanaSyncPlugin.syncIntervalId, 0 for null
  intervals,           \* the active timers of window.setInterval: [id, ms]
  saving,              \* the onChange handlers of the interval setting that are suspended at
                       \* "await this.plugin.saveSettings()"
  nChanges,            \* edits of the interval setting so far
  codec                \* the codec on its own: an input, and what the codec made of it

storeVars == <<files, folders>>
pluginVars == <<fileModifiedBySync, debounce, lastKnownState, scans>>
timerVars == <<timers, debounceKey, bursts>>
scanVars == <<lastScan, observed>>
intervalVars == <<syncIntervalId, intervals, saving, nChanges>>
vars == <<settings, files, folders, remote, now, isSyncing, fileModifiedBySync, inflight,
          timers, debounceKey, debounce, lastKnownState, scans, runs, nTriggers, remoteEdits,
          userEdits, notices, settled, lastPass, lastRun, lastScan, observed, bursts, flip,
          syncIntervalId, intervals, saving, nChanges, codec>>

Options == [showDueDates |-> settings.showDueDates,
            showAssignees |-> settings.showAssignees,
            showCompletedTasks |-> settings.showCompletedTasks]

NoPass == [n |-> 0]
NoRun == [n |-> 0]
NoScan == [n |-> 0]
NoFlip == [gid |-> <<>>, completed |-> FALSE, pushed |-> TRUE]
NoCodec == [pc |-> "off"]

\* DEFAULT_SETTINGS.syncIntervalMinutes
DefaultMinutes == 5

Settings(token, projects, opts) ==
  [asanaAccessToken |-> token, syncedProjects |-> projects,
   syncIntervalMinutes |-> DefaultMinutes,
   showDueDates |-> opts.showDueDates, showAssignees |-> opts.showAssignees,
   showCompletedTasks |-> opts.showCompletedTasks]

\* window.setInterval(() => this.runSync(), minutes * 60 * 1000) with handle id
Interval(id, minutes) == [id |-> id, ms |-> minutes * 60 * 1000]

\* the interval timer of a plugin that was just loaded with the interval minutes:
\* onload has called restartSyncInterval
InitInterval(minutes) ==
  /\ syncIntervalId = IF minutes > 0 THEN 1 ELSE 0
  /\ intervals = IF minutes > 0 THEN {Interval(1, minutes)} ELSE {}
  /\ saving = 0
  /\ nChanges = 0

\* the fields the sync engine and the change detector work on
InitCore ==
  /\ now = 0
  /\ isSyncing = FALSE
  /\ fileModifiedBySync = {}
  /\ inflight = <<>>
  /\ timers = {}
  /\ debounceKey = [p \in Paths |-> 0]
  /\ debounce = [p \in Paths |-> "none"]
  /\ lastKnownState = [p \in Paths |-> [has |-> FALSE, state |-> <<>>]]
  /\ scans = <<>>
  /\ runs = <<>>
  /\ nTriggers = 0
  /\ remoteEdits = 0
  /\ userEdits = 0
  /\ notices = {}
  /\ settled = [p \in Paths |-> FALSE]
  /\ lastPass = NoPass
  /\ lastRun = NoRun
  /\ lastScan = NoScan
  /\ observed = [p \in Paths |-> [has |-> FALSE, state |-> <<>>]]
  /\ bursts = [p \in Paths |-> [begun |-> 0, scanned |-> 0]]
  /\ flip = NoFlip

\* the fields of a plugin that was just loaded with the default interval
InitFields ==
  /\ InitCore
  /\ InitInterval(DefaultMinutes)

InitPlugin ==
  /\ InitFields
  /\ codec = NoCodec

\* one project source; the note is missing or any document of DocPool
Init ==
  /\ InitPlugin
  /\ \E opts \in OptionPool : settings = Settings(TRUE, <<P1>>, opts)
  /\ \E d \in {NoFile} \cup {File(c) : c \in DocPool} :
       files = [p \in Paths |-> IF p = P1.notePath THEN d ELSE NoFile]
  /\ folders \in {{}, {FolderOf(P1.notePath)}}
  /\ (files[P1.notePath].exists => folders # {})
  /\ \E r \in RemotePool : remote = [l \in Lists |-> IF l = "p1" THEN r ELSE <<>>]

(***************************************************************************)
(* runSync / syncAllProjects / syncProject.  A call runs without           *)
(* interruption up to its next await of a remote or vault call; each such *)
(* call returns, or fails, in a later step.                                *)
(***************************************************************************)
RemoveAt(s, i) == Sub(s, 1, i - 1) \o Sub(s, i + 1, Len(s))

Unmark == [kind |-> "unmark", path |-> <<>>, bySync |-> FALSE]
Modified(path, bySync) == [kind |-> "modify", path |-> path, bySync |-> bySync]

FetchCall == [op |-> "fetch", gid |-> <<>>, completed |-> FALSE]
UpdateCall(gid, completed) == [op |-> "update", gid |-> gid, completed |-> completed]

NoTokenNotice == [kind |-> "no token", name |-> <<>>, added |-> 0, completionChanges |-> 0]
NoProjectsNotice == [kind |-> "no projects", name |-> <<>>, added |-> 0, completionChanges |-> 0]
FailedNotice(projectName) ==
  [kind |-> "failed to sync", name |-> projectName, added |-> 0, completionChanges |-> 0]
SummaryNotice(added, completionChanges) ==
  [kind |-> "summary", name |-> <<>>, added |-> added, completionChanges |-> completionChanges]

ZeroStats == [added |-> 0, updated |-> 0, completionChanges |-> 0]

\* the locals of syncProject at its first await, the first fetch
StartPass(run, idx) ==
  [run EXCEPT !.idx = idx, !.pc = "fetch1", !.asanaTasks = <<>>, !.first = <<>>,
              !.second = <<>>, !.fetched2 = FALSE, !.bootstrap = FALSE, !.existingContent = <<>>,
              !.existing = <<>>, !.pushAt = 0, !.content = <<>>, !.stats = ZeroStats,
              !.rewritten = <<>>, !.newTasks = <<>>,
              !.calls = <<FetchCall>>, !.pushed = <<>>, !.modifyCalled = FALSE,
              !.quietBefore = settled[settings.syncedProjects[idx].notePath],
              !.before = files[settings.syncedProjects[idx].notePath], !.rejected = {},
              !.invoked = Append(@, idx)]

NewRun(n) ==
  [n |-> n, idx |-> 0, pc |-> "start", asanaTasks |-> <<>>, first |-> <<>>,
   second |-> <<>>, fetched2 |-> FALSE, bootstrap |-> FALSE, existingContent |-> <<>>, existing |-> <<>>,
   pushAt |-> 0, content |-> <<>>, stats |-> ZeroStats, rewritten |-> <<>>,
   newTasks |-> <<>>, calls |-> <<>>, pushed |-> <<>>, modifyCalled |-> FALSE,
   quietBefore |-> FALSE, before |-> NoFile, rejected |-> {}, invoked |-> <<>>,
   failed |-> {},
   totalAdded |-> 0, totalCompletionChanges |-> 0]

\* runSync without its guard: with it C6 fails
RunSyncGuardOpen == TRUE

\* "if (this.isSyncing) return;"
RunSyncGuard == ~isSyncing

\* a finally block that leaves the flag as it is: with it C28 fails
FinallyKeepsFlag(events) ==
  /\ isSyncing' = isSyncing
  /\ inflight' = inflight \o events \o <<Unmark>>

\* the finally block of runSync
Finally(events) ==
  /\ isSyncing' = FALSE
  /\ inflight' = inflight \o events \o <<Unmark>>

\* a loop that a throwing source ends: with it C10 fails
MoreSourcesUnlessThrown(idx, outcome) ==
  outcome = "ok" /\ idx < Len(settings.syncedProjects)

\* "for (const project of settings.syncedProjects) { try { ... } catch (e) { ... } }":
\* the loop goes on after source idx, whether its syncProject returned or threw
MoreSources(idx, outcome) == idx < Len(settings.syncedProjects)

\* syncProject returned (outcome "ok") or threw (outcome "failed") for source run.idx:
\* syncAllProjects goes on to the next source, or ends and runSync with it
EndPass(r, run, outcome, wrote, events) ==
  LET project == settings.syncedProjects[run.idx]
      path == project.notePath
      more == MoreSources(run.idx, outcome)
      after == [run EXCEPT
                  !.failed = IF outcome = "failed" THEN @ \cup {run.idx} ELSE @,
                  !.totalAdded = IF outcome = "ok" THEN @ + run.stats.added ELSE @,
                  !.totalCompletionChanges =
                     IF outcome = "ok" THEN @ + run.stats.completionChanges ELSE @]
      shown == (IF outcome = "failed" THEN {FailedNotice(project.projectName)} ELSE {})
                 \cup (IF ~more /\ (after.totalAdded > 0 \/ after.totalCompletionChanges > 0)
                         THEN {SummaryNotice(after.totalAdded, after.totalCompletionChanges)}
                         ELSE {})
      closed == [settled EXCEPT ![path] = @ /\ outcome = "ok" /\ ~run.bootstrap]
  IN  /\ lastPass' = [n |-> lastPass.n + 1, run |-> run.n, idx |-> run.idx, path |-> path,
                      outcome |-> outcome, bootstrap |-> run.bootstrap,
                      existing |-> run.existingContent, first |-> run.first,
                      second |-> run.second,
                      refreshed |-> run.asanaTasks, fetched2 |-> run.fetched2,
                      newContent |-> run.content, wrote |-> wrote,
                      rewritten |-> run.rewritten, newTasks |-> run.newTasks,
                      stats |-> run.stats, calls |-> run.calls, pushed |-> run.pushed,
                      modifyCalled |-> run.modifyCalled,
                      before |-> run.before, rejected |-> run.rejected,
                      options |-> Options, clock |-> now,
                      quiet |-> run.quietBefore /\ settled[path]]
      /\ notices' = notices \cup shown
      /\ IF more
           THEN /\ runs' = [runs EXCEPT ![r] = StartPass(after, run.idx + 1)]
                /\ settled' = [closed EXCEPT
                                 ![settings.syncedProjects[run.idx + 1].notePath] = TRUE]
                /\ inflight' = inflight \o events
                /\ UNCHANGED <<isSyncing, lastRun>>
           ELSE /\ runs' = RemoveAt(runs, r)
                /\ settled' = closed
                /\ Finally(events)
                /\ lastRun' = [n |-> run.n, invoked |-> after.invoked,
                               failed |-> after.failed, sources |-> Len(settings.syncedProjects)]

\* A trigger: the command, the ribbon icon, the interval timer or the start-up timer
RunSync ==
  /\ nTriggers' = nTriggers + 1
  /\ UNCHANGED <<settings, intervalVars, codec, flip, files, folders, remote, debounce, timerVars, lastKnownState, scans, scanVars,
                 remoteEdits, userEdits, lastPass>>
  /\ IF ~RunSyncGuard
       THEN UNCHANGED <<now, isSyncing, fileModifiedBySync, inflight, runs, notices,
                        settled, lastRun>>
       ELSE
         /\ now' = now + 1
         /\ fileModifiedBySync' = fileModifiedBySync \cup
              {settings.syncedProjects[j].notePath : j \in DOMAIN settings.syncedProjects}
         /\ IF ~settings.asanaAccessToken \/ settings.syncedProjects = <<>>
              THEN /\ notices' = notices \cup
                        {IF ~settings.asanaAccessToken THEN NoTokenNotice
                         ELSE NoProjectsNotice}
                   /\ Finally(<<>>)
                   /\ lastRun' = [n |-> nTriggers + 1, invoked |-> <<>>, failed |-> {},
                                  sources |-> Len(settings.syncedProjects)]
                   /\ UNCHANGED <<runs, settled>>
              ELSE /\ isSyncing' = TRUE
                   /\ runs' = Append(runs, StartPass(NewRun(nTriggers + 1), 1))
                   /\ settled' = [settled EXCEPT ![settings.syncedProjects[1].notePath] = TRUE]
                   /\ UNCHANGED <<inflight, notices, lastRun>>

Running(r, pc) == r \in DOMAIN runs /\ runs[r].pc = pc
ProjectOf(r) == settings.syncedProjects[runs[r].idx]

\* The first fetch returned.  The note is missing: syncProject builds it and awaits
\* createFolder or create; else it awaits the read of the note.
\* a fetch whose rejection is swallowed: with it C32 fails
FetchThrowsNever(ok) == FALSE

\* "asanaTasks = await fetchProjectTasks(...)" is in no try block: a rejection ends
\* syncProject there
FetchThrows(ok) == ~ok

Fetch1Return(r, ok) ==
  /\ Running(r, "fetch1")
  /\ UNCHANGED <<settings, intervalVars, codec, flip, files, folders, remote, now, fileModifiedBySync, debounce, timerVars,
                 lastKnownState, scans, scanVars, nTriggers, remoteEdits, userEdits>>
  /\ LET run == [runs[r] EXCEPT !.rejected = IF ok THEN @ ELSE @ \cup {"fetch1"}]
         project == ProjectOf(r)
         asanaTasks == remote[ListOf(project)]
         fetched == [run EXCEPT !.asanaTasks = asanaTasks, !.first = asanaTasks]
         folderPath == FolderOf(project.notePath)
     IN  IF FetchThrows(ok) THEN EndPass(r, run, "failed", FALSE, <<>>)
         ELSE
           /\ runs' = [runs EXCEPT ![r] =
                IF ~files[project.notePath].exists
                  THEN [fetched EXCEPT
                          !.bootstrap = TRUE,
                          !.content = With(Options, LAMBDA opts :
                            generateNoteContent(project, asanaTasks, opts, now)),
                          !.pc = IF folderPath # <<>> /\ folderPath \notin folders
                                   THEN "createFolder" ELSE "create"]
                  ELSE [fetched EXCEPT !.pc = "read"]]
           /\ UNCHANGED <<isSyncing, inflight, notices, settled, lastPass, lastRun>>

CreateFolderReturn(r, ok) ==
  /\ Running(r, "createFolder")
  /\ UNCHANGED <<settings, intervalVars, codec, flip, files, remote, now, fileModifiedBySync, debounce, timerVars,
                 lastKnownState, scans, scanVars, nTriggers, remoteEdits, userEdits>>
  /\ IF ~ok
       THEN /\ EndPass(r, runs[r], "failed", FALSE, <<>>)
            /\ UNCHANGED folders
       ELSE /\ folders' = folders \cup {FolderOf(ProjectOf(r).notePath)}
            /\ runs' = [runs EXCEPT ![r].pc = "create"]
            /\ UNCHANGED <<isSyncing, inflight, notices, settled, lastPass, lastRun>>

\* vault.create returned; it fails when the path exists by now
CreateReturn(r, ok) ==
  /\ Running(r, "create")
  /\ ok => ~files[ProjectOf(r).notePath].exists
  /\ UNCHANGED <<settings, intervalVars, codec, flip, folders, remote, now, fileModifiedBySync, debounce, timerVars,
                 lastKnownState, scans, scanVars, nTriggers, remoteEdits, userEdits>>
  /\ LET run == runs[r]
     IN  IF ~ok
           THEN /\ EndPass(r, run, "failed", FALSE, <<>>)
                /\ UNCHANGED files
           ELSE /\ files' = [files EXCEPT ![ProjectOf(r).notePath] = File(run.content)]
                /\ EndPass(r, [run EXCEPT !.stats.added = Len(run.asanaTasks)],
                           "ok", TRUE, <<>>)

\* where the push loop of Step 1 stops next: the next conflicting entry to push, or
\* the second fetch when there is none left
NextPush(run, from) ==
  With(asanaTaskMap(run.asanaTasks), LAMBDA taskMap :
    With(Conflicts(run.existing, from, taskMap), LAMBDA todo :
      IF todo = {}
        THEN [run EXCEPT !.pc = "fetch2", !.pushAt = 0, !.calls = Append(@, FetchCall)]
        ELSE [run EXCEPT
                !.pc = "push", !.pushAt = Min(todo),
                !.calls = Append(@, UpdateCall(run.existing[Min(todo)].key,
                                               run.existing[Min(todo)].val.completed))]))

\* vault.read returned: parse the note, join it with the fetch, start pushing
ReadReturn(r) ==
  /\ Running(r, "read")
  /\ UNCHANGED <<settings, intervalVars, codec, flip, files, folders, remote, now, fileModifiedBySync, debounce, timerVars,
                 lastKnownState, scans, scanVars, nTriggers, remoteEdits, userEdits>>
  /\ \E existingContent \in {files[ProjectOf(r).notePath].content} :
       \E parsed \in {parseNoteContent(existingContent)} :
         \E read \in {[runs[r] EXCEPT !.existingContent = existingContent,
                                      !.existing = existingTaskMap(parsed)]} :
           runs' = [runs EXCEPT ![r] = NextPush(read, 1)]
  /\ UNCHANGED <<isSyncing, inflight, notices, settled, lastPass, lastRun>>

\* PUT /tasks/gid {completed}: every list that reports the task reports the new value
Completed(lists, gid, completed) ==
  [l \in DOMAIN lists |->
     [j \in DOMAIN lists[l] |->
        IF lists[l][j].gid = gid THEN [lists[l][j] EXCEPT !.completed = completed]
        ELSE lists[l][j]]]

Reports(lists, gid) == \E l \in DOMAIN lists : \E j \in DOMAIN lists[l] : lists[l][j].gid = gid

\* a push loop that a failed update ends: with it C21 fails
StepOneGoesOnUnlessThrown(ok) == ok

\* "try { await updateTaskCompletion(...); stats.completionChanges++; } catch (e) { ... }"
\* inside the loop of Step 1: the loop goes on with the next entry of the map, whether
\* the update returned or threw
StepOneGoesOn(ok) == TRUE

\* updateTaskCompletion returned or threw; a task that is gone cannot be updated
PushReturn(r, ok) ==
  /\ Running(r, "push")
  /\ UNCHANGED <<settings, intervalVars, codec, flip, files, folders, now, fileModifiedBySync, debounce, timerVars,
                 lastKnownState, scans, scanVars, nTriggers, remoteEdits, userEdits>>
  /\ LET run == runs[r]
         entry == run.existing[run.pushAt]
         logged == [run EXCEPT !.pushed = Append(@, [gid |-> entry.key,
                                                     completed |-> entry.val.completed,
                                                     ok |-> ok])]
         counted == [logged EXCEPT !.stats.completionChanges = @ + 1]
     IN  /\ ok => Reports(remote, entry.key)
         /\ IF ok
              THEN /\ remote' = Completed(remote, entry.key, entry.val.completed)
                   /\ settled' = [p \in Paths |-> FALSE]
                   /\ \E after \in {counted} :
                        runs' = [runs EXCEPT ![r] = NextPush(after, run.pushAt + 1)]
              ELSE /\ \E after \in {logged} :
                        runs' = [runs EXCEPT ![r] =
                                   NextPush(after, IF StepOneGoesOn(ok) THEN run.pushAt + 1
                                                   ELSE Len(run.existing) + 1)]
                   /\ UNCHANGED <<remote, settled>>
  /\ UNCHANGED <<isSyncing, inflight, notices, lastPass, lastRun>>

\* a comparison that always finds a difference: with it C19 fails
ContentChangedAlways(newContent, existingContent) == TRUE

\* "if (newContent !== existingContent)"
ContentChanged(newContent, existingContent) == newContent # existingContent

\* a pass that keeps the tasks of its first fetch: with it C22 fails
RefreshedTasksKeepsFirst(asanaTasks, fetched) == asanaTasks

\* "asanaTasks = await fetchProjectTasks(...)": the variable holds the tasks the second
\* fetch returned
RefreshedTasks(asanaTasks, fetched) == fetched

\* The second fetch returned: Steps 2 and 3, then the write when the content changed
Fetch2Return(r, ok) ==
  /\ Running(r, "fetch2")
  /\ UNCHANGED <<settings, intervalVars, codec, flip, files, folders, remote, now, fileModifiedBySync, debounce, timerVars,
                 lastKnownState, scans, scanVars, nTriggers, remoteEdits, userEdits>>
  /\ \E run \in {[runs[r] EXCEPT !.rejected = IF ok THEN @ ELSE @ \cup {"fetch2"}]} :
     IF FetchThrows(ok) THEN EndPass(r, run, "failed", FALSE, <<>>)
     ELSE
       \E fetched \in {remote[ListOf(ProjectOf(r))]}, opts \in {Options} :
        \E asanaTasks \in {RefreshedTasks(run.asanaTasks, fetched)} :
         \E m \in {Merge(run.existingContent, asanaTasks, ProjectOf(r), opts, now)} :
           \E merged \in {[run EXCEPT !.asanaTasks = asanaTasks, !.second = fetched,
                                       !.fetched2 = TRUE,
                                       !.content = m.newLines,
                                       !.rewritten = m.rewritten,
                                       !.newTasks = m.newTasks,
                                       !.stats.updated = m.updated,
                                       !.stats.added = m.added]} :
             IF ContentChanged(m.newLines, run.existingContent)
               THEN /\ runs' = [runs EXCEPT ![r] = [merged EXCEPT !.pc = "modify",
                                                                  !.modifyCalled = TRUE]]
                    /\ UNCHANGED <<isSyncing, inflight, notices, settled, lastPass,
                                   lastRun>>
               ELSE EndPass(r, merged, "ok", FALSE, <<>>)

\* vault.modify returned or threw; a write is followed by the vault's "modify" event
ModifyReturn(r, ok) ==
  /\ Running(r, "modify")
  /\ UNCHANGED <<settings, intervalVars, codec, flip, folders, remote, now, fileModifiedBySync, debounce, timerVars,
                 lastKnownState, scans, scanVars, nTriggers, remoteEdits, userEdits>>
  /\ LET run == runs[r]
         path == ProjectOf(r).notePath
     IN  IF ~ok
           THEN /\ EndPass(r, run, "failed", FALSE, <<>>)
                /\ UNCHANGED files
           ELSE /\ files' = [files EXCEPT ![path] = File(run.content)]
                /\ EndPass(r, run, "ok", TRUE, <<Modified(path, TRUE)>>)

(***************************************************************************)
(* Other Asana clients                                                     *)
(***************************************************************************)
\* somebody completes or reopens a task in Asana while a pass awaits its second fetch
RemoteComplete(l, j) ==
  /\ remoteEdits < MaxRemoteEdits
  /\ \E r \in DOMAIN runs : runs[r].pc = "fetch2"
  /\ j \in DOMAIN remote[l]
  /\ remote' = Completed(remote, remote[l][j].gid, ~remote[l][j].completed)
  /\ remoteEdits' = remoteEdits + 1
  /\ settled' = [p \in Paths |-> FALSE]
  /\ UNCHANGED <<settings, intervalVars, codec, flip, files, folders, now, isSyncing, fileModifiedBySync, inflight,
                 debounce, timerVars, lastKnownState, scans, scanVars, runs, nTriggers, userEdits, notices,
                 lastPass, lastRun>>

\* somebody deletes a task, or moves it off the list
RemoteRemove(l, j) ==
  /\ remoteEdits < MaxRemoteEdits
  /\ \E r \in DOMAIN runs : runs[r].pc = "fetch2"
  /\ j \in DOMAIN remote[l]
  /\ remote' = [remote EXCEPT ![l] = RemoveAt(@, j)]
  /\ remoteEdits' = remoteEdits + 1
  /\ settled' = [p \in Paths |-> FALSE]
  /\ UNCHANGED <<settings, intervalVars, codec, flip, files, folders, now, isSyncing, fileModifiedBySync, inflight,
                 debounce, timerVars, lastKnownState, scans, scanVars, runs, nTriggers, userEdits, notices,
                 lastPass, lastRun>>

\* one run of runSync over the configured sources
Next ==
  \/ nTriggers = 0 /\ RunSync
  \/ \E r \in DOMAIN runs, ok \in BOOLEAN : Fetch1Return(r, ok)
  \/ \E r \in DOMAIN runs, ok \in BOOLEAN : CreateFolderReturn(r, ok)
  \/ \E r \in DOMAIN runs, ok \in BOOLEAN : CreateReturn(r, ok)
  \/ \E r \in DOMAIN runs : ReadReturn(r)
  \/ \E r \in DOMAIN runs, ok \in BOOLEAN : PushReturn(r, ok)
  \/ \E r \in DOMAIN runs, ok \in BOOLEAN : Fetch2Return(r, ok)
  \/ \E r \in DOMAIN runs, ok \in BOOLEAN : ModifyReturn(r, ok)
  \/ \E l \in Lists, j \in 1..2 : RemoteComplete(l, j)
  \/ \E l \in Lists, j \in 1..2 : RemoteRemove(l, j)

Spec == Init /\ [][Next]_vars

\* notes whose identifier comments are on lines the rewrite loop copies: a note that
\* begins with a rule line ("---", a fence that is never closed), a heading with a
\* comment; a note with two task lines; a note with the same identifier on two lines
RepeatPool ==
  { << FENCE, Box(SP) \o <<"a">> \o Comment(<<"1">>) >>,
    << H2 \o <<"a">> \o Comment(<<"1">>) >>,
    << H2 \o <<"a">>, Box(SP) \o <<"a">> \o Comment(<<"1">>),
       Box("x") \o <<"b">> \o Comment(<<"2">>) >>,
    << Box(SP) \o <<"a">> \o Comment(<<"1">>), Box(SP) \o <<"a">> \o Comment(<<"1">>) >> }

\* one project source; the note is missing or one of RepeatPool
InitRepeat ==
  /\ InitPlugin
  /\ \E opts \in OptionPool : settings = Settings(TRUE, <<P1>>, opts)
  /\ \E d \in {NoFile} \cup {File(c) : c \in RepeatPool} :
       files = [p \in Paths |-> IF p = P1.notePath THEN d ELSE NoFile]
  /\ folders \in {{}, {FolderOf(P1.notePath)}}
  /\ (files[P1.notePath].exists => folders # {})
  /\ \E r \in RemotePool : remote = [l \in Lists |-> IF l = "p1" THEN r ELSE <<>>]

SpecRepeat == InitRepeat /\ [][Next]_vars

(***************************************************************************)
(* The plugin around the engine: the vault's "modify" events, the unmark   *)
(* timeout of runSync, the debounce timeout of handleFileModify and        *)
(* processCheckboxChanges.                                                 *)
(*                                                                         *)
(* Order of the pending events and unmark timeouts.  The vault reports a   *)
(* write after the write returned; the reports arrive in the order of the  *)
(* writes, and a report arrives within the 2000 ms of the unmark timeout:  *)
(* a report that was pending when a timeout was set arrives before that    *)
(* timeout fires.  Timeouts fire in the order they were set.               *)
(***************************************************************************)
\* the user ticks or unticks the checkbox of a line
Toggled(line) ==
  With(SkipSpace(line, 1), LAMBDA p :
    [line EXCEPT ![p + 3] = IF @ = SP THEN "x" ELSE SP])

CanToggle(line) == HasCheckbox(line, SkipSpace(line, 1))

\* the flip the user's edit of the line makes, when it is a task line with an identifier
FlipOf(line) ==
  With(parseTaskLine(line, 0), LAMBDA parsed :
    IF parsed.ok /\ parsed.asanaGid # <<>>
      THEN [gid |-> parsed.asanaGid, completed |-> parsed.completed, pushed |-> FALSE]
      ELSE flip)

\* at most max edits in one behaviour
UserToggleWithin(path, i, max) ==
  /\ userEdits < max
  /\ files[path].exists
  /\ i \in DOMAIN files[path].content
  /\ CanToggle(files[path].content[i])
  /\ \E line \in {Toggled(files[path].content[i])} :
       /\ files' = [files EXCEPT ![path].content[i] = line]
       /\ flip' = FlipOf(line)
  /\ inflight' = Append(inflight, Modified(path, FALSE))
  /\ userEdits' = userEdits + 1
  /\ settled' = [settled EXCEPT ![path] = FALSE]
  /\ UNCHANGED <<settings, intervalVars, codec, folders, remote, now, isSyncing, fileModifiedBySync,
                 debounce, timerVars, lastKnownState, scans, scanVars, runs, nTriggers,
                 remoteEdits, notices, lastPass, lastRun>>

UserToggle(path, i) == UserToggleWithin(path, i, MaxUserEdits)

\* a callback that clears nothing: with it C29 fails
ClearedNever(marked) == marked

\* "this.fileModifiedBySync.clear()"
Cleared(marked) == {}

\* the callback of setTimeout in the finally block of runSync
UnmarkFire ==
  /\ inflight # <<>>
  /\ Head(inflight).kind = "unmark"
  /\ inflight' = Tail(inflight)
  /\ fileModifiedBySync' = Cleared(fileModifiedBySync)
  /\ UNCHANGED <<settings, intervalVars, codec, flip, files, folders, remote, now, isSyncing, debounce, timerVars, lastKnownState,
                 scans, scanVars, runs, nTriggers, remoteEdits, userEdits, notices, settled, lastPass,
                 lastRun>>

\* the pending report that arrives next: the oldest one
NextReport ==
  With({j \in DOMAIN inflight : inflight[j].kind = "modify"}, LAMBDA reports :
    IF reports = {} THEN 0 ELSE Min(reports))

\* the guards of handleFileModify: the path is marked, a pass is running, the path
\* is no note of a source
Ignores(path) ==
  \/ path \in fileModifiedBySync
  \/ isSyncing
  \/ ~\E j \in DOMAIN settings.syncedProjects : settings.syncedProjects[j].notePath = path

\* window.setTimeout returns a handle no pending timeout has
FreshId(pending) ==
  Min({n \in 1..(Cardinality(pending) + 1) : \A t \in pending : t.id # n})

\* a handler that leaves the pending timeout alone: with it C14 fails
ClearTimeoutNever(pending, id) == pending

\* window.clearTimeout(id)
ClearTimeout(pending, id) == {t \in pending : t.id # id}

\* vault.on("modify") calls handleFileModify: past the guards, the timeout the property
\* holds is cleared, a new one is set and its handle is kept in the property
HandleFileModify ==
  /\ NextReport > 0
  /\ \E k \in {NextReport} :
       \E path \in {inflight[k].path}, origin \in {IF inflight[k].bySync THEN "sync" ELSE "user"} :
         /\ inflight' = RemoveAt(inflight, k)
         /\ IF Ignores(path)
              THEN UNCHANGED <<timers, debounceKey, debounce, bursts>>
              ELSE \E kept \in {IF debounceKey[path] # 0
                                   THEN ClearTimeout(timers, debounceKey[path])
                                   ELSE timers} :
                     \E id \in {FreshId(timers)} :
                       /\ timers' = kept \cup {[id |-> id, path |-> path, origin |-> origin]}
                       /\ debounceKey' = [debounceKey EXCEPT ![path] = id]
                       /\ debounce' = [debounce EXCEPT ![path] = origin]
                       /\ bursts' = [bursts EXCEPT ![path].begun =
                                       IF debounceKey[path] = 0 THEN @ + 1 ELSE @]
  /\ UNCHANGED <<settings, intervalVars, codec, flip, files, folders, remote, now, isSyncing,
                 fileModifiedBySync, lastKnownState, scans, scanVars, runs, nTriggers,
                 remoteEdits, userEdits, notices, settled, lastPass, lastRun>>

\* "for (...) { const parsed = parseTaskLine(lines[i], i); if (parsed?.asanaGid) ... }"
RECURSIVE StateFrom(_, _, _)
StateFrom(lines, i, m) ==
  IF i > Len(lines) THEN m
  ELSE With(parseTaskLine(lines[i], i - 1), LAMBDA parsed :
         With(IF parsed.ok /\ parsed.asanaGid # <<>>
                THEN MapSet(m, parsed.asanaGid, parsed.completed) ELSE m,
              LAMBDA next : StateFrom(lines, i + 1, next)))

currentState(content) == With(content, LAMBDA lines : StateFrom(lines, 1, <<>>))

\* a loop that takes an identifier missing from the snapshot for changed: with it
\* C30 fails
ChangedOrNew(current, lastState, k) ==
  {j \in k..Len(current) :
     \/ ~MapHas(lastState, current[j].key)
     \/ MapGet(lastState, current[j].key) # current[j].val}

\* "wasCompleted !== undefined && wasCompleted !== completed", from entry k on
Changed(current, lastState, k) ==
  {j \in k..Len(current) :
     /\ MapHas(lastState, current[j].key)
     /\ MapGet(lastState, current[j].key) # current[j].val}

TaskNotice(completed, projectName) ==
  [kind |-> IF completed THEN "task completed" ELSE "task reopened", name |-> projectName,
   added |-> 0, completionChanges |-> 0]
TaskFailedNotice ==
  [kind |-> "failed to update task", name |-> <<>>, added |-> 0, completionChanges |-> 0]

\* The callback of a timeout of handleFileModify: the property is deleted,
\* processCheckboxChanges starts and, with a token, awaits the read of the note
DebounceFire(t) ==
  /\ t \in timers
  /\ timers' = timers \ {t}
  /\ debounceKey' = [debounceKey EXCEPT ![t.path] = 0]
  /\ debounce' = [debounce EXCEPT ![t.path] = "none"]
  /\ bursts' = [bursts EXCEPT ![t.path].scanned = @ + 1]
  /\ scans' =
       IF ~settings.asanaAccessToken THEN scans
       ELSE Append(scans, [path |-> t.path, pc |-> "read", origin |-> t.origin,
                           current |-> <<>>, last |-> [has |-> FALSE, state |-> <<>>],
                           pushAt |-> 0, pushed |-> <<>>])
  /\ UNCHANGED <<settings, intervalVars, codec, flip, files, folders, remote, now, isSyncing,
                 fileModifiedBySync, inflight, lastKnownState, scanVars, runs, nTriggers,
                 remoteEdits, userEdits, notices, settled, lastPass, lastRun>>

\* the compare loop of processCheckboxChanges from entry from on: it awaits the next
\* update, or it ends and the snapshot is replaced
ScanOn(s, scan, from) ==
  \E todo \in {IF scan.last.has THEN Changed(scan.current, scan.last.state, from) ELSE {}} :
    IF todo = {}
      THEN /\ scans' = RemoveAt(scans, s)
           /\ lastKnownState' = [lastKnownState EXCEPT
                                   ![scan.path] = [has |-> TRUE, state |-> scan.current]]
           /\ lastScan' = [n |-> lastScan.n + 1, path |-> scan.path, origin |-> scan.origin,
                           current |-> scan.current, last |-> scan.last,
                           pushed |-> scan.pushed]
           /\ UNCHANGED flip
      ELSE /\ scans' = [scans EXCEPT ![s] = [scan EXCEPT !.pc = "push",
                                                         !.pushAt = Min(todo)]]
           /\ flip' = IF /\ flip.gid = scan.current[Min(todo)].key
                          /\ flip.completed = scan.current[Min(todo)].val
                         THEN [flip EXCEPT !.pushed = TRUE] ELSE flip
           /\ UNCHANGED <<lastKnownState, lastScan>>

\* vault.read returned to processCheckboxChanges
ScanReadReturn(s) ==
  /\ s \in DOMAIN scans
  /\ scans[s].pc = "read"
  /\ \E scan \in {[scans[s] EXCEPT !.current = currentState(files[scans[s].path].content),
                                   !.last = lastKnownState[scans[s].path]]} :
       /\ observed' = [observed EXCEPT ![scan.path] = [has |-> TRUE, state |-> scan.current]]
       /\ ScanOn(s, scan, 1)
  /\ UNCHANGED <<settings, intervalVars, codec, files, folders, remote, now, isSyncing, fileModifiedBySync,
                 inflight, debounce, timerVars, runs, nTriggers, remoteEdits, userEdits,
                 notices, settled, lastPass, lastRun>>

\* the source whose note is at path
SourceAt(path) ==
  settings.syncedProjects[CHOOSE j \in DOMAIN settings.syncedProjects :
                            settings.syncedProjects[j].notePath = path]

\* a compare loop that a failed update ends: with it C12 fails
LoopGoesOnUnlessThrown(ok) == ok

\* "try { await updateTaskCompletion(...) } catch (e) { ... }" inside the loop: the loop
\* goes on with the next entry, whether the update returned or threw
LoopGoesOn(ok) == TRUE

\* updateTaskCompletion returned to processCheckboxChanges, or threw
ScanPushReturn(s, ok) ==
  /\ s \in DOMAIN scans
  /\ scans[s].pc = "push"
  /\ \E scan \in {scans[s]} :
       \E entry \in {scan.current[scan.pushAt]} :
         /\ ok => Reports(remote, entry.key)
         /\ remote' = IF ok THEN Completed(remote, entry.key, entry.val) ELSE remote
         /\ settled' = IF ok THEN [p \in Paths |-> FALSE] ELSE settled
         /\ notices' = notices \cup
              {IF ok THEN TaskNotice(entry.val, SourceAt(scan.path).projectName)
               ELSE TaskFailedNotice}
         /\ \E after \in {[scan EXCEPT !.pushed =
                             Append(@, [gid |-> entry.key, completed |-> entry.val,
                                        ok |-> ok])]} :
              ScanOn(s, after, IF LoopGoesOn(ok) THEN scan.pushAt + 1
                               ELSE Len(scan.current) + 1)
  /\ UNCHANGED <<settings, intervalVars, codec, files, folders, now, isSyncing, fileModifiedBySync, inflight,
                 debounce, timerVars, observed, runs, nTriggers, remoteEdits, userEdits,
                 lastPass, lastRun>>

(***************************************************************************)
(* The plugin with one source: triggers at any time, the user's edits,     *)
(* the events and the timeouts                                             *)
(***************************************************************************)
\* the note of the project as generateNoteContent wrote it at clock value 0
NoteOne(c) ==
  << FENCE, <<"asana_project_gid:", SP, "p1">>, <<"asana_is_my_tasks:", SP, "false">>,
     SyncLine(0), FENCE, <<>>, H1 \o <<"a">>, <<>>,
     H2 \o <<"a">>, <<>>, Box(c) \o <<"a">> \o Comment(<<"1">>), <<>> >>

\* a note the user keeps for the My Tasks list: no frontmatter
NoteTwo(c) == << Box(c) \o <<"b">> \o Comment(<<"2">>) >>

InitOne ==
  /\ InitPlugin
  /\ \E hide \in BOOLEAN :
       settings = Settings(TRUE, <<P1>>,
                           [showDueDates |-> FALSE, showAssignees |-> FALSE,
                            showCompletedTasks |-> ~hide])
  /\ \E one \in {NoFile, File(NoteOne(SP))} :
       files = [p \in Paths |-> IF p = P1.notePath THEN one ELSE NoFile]
  /\ folders \in {{}, {FolderOf(P1.notePath)}}
  /\ (files[P1.notePath].exists => folders # {})
  /\ \E c \in BOOLEAN :
       remote = [l \in Lists |-> IF l = "p1" THEN <<TaskOne(c)>> ELSE <<>>]

\* a plugin that syncAllProjects returns early for: no token, or no source
InitEarly ==
  /\ InitPlugin
  /\ \E early \in {<<FALSE, <<P1>> >>, <<TRUE, <<>> >>} :
       settings = Settings(early[1], early[2],
                           [showDueDates |-> FALSE, showAssignees |-> FALSE,
                            showCompletedTasks |-> TRUE])
  /\ files = [p \in Paths |-> IF p = P1.notePath THEN File(NoteOne(SP)) ELSE NoFile]
  /\ folders = {FolderOf(P1.notePath)}
  /\ remote = [l \in Lists |-> IF l = "p1" THEN <<TaskOne(FALSE)>> ELSE <<>>]

NextPlugin ==
  \/ nTriggers < MaxTriggers /\ RunSync
  \/ \E r \in DOMAIN runs, ok \in BOOLEAN : Fetch1Return(r, ok)
  \/ \E r \in DOMAIN runs, ok \in BOOLEAN : CreateFolderReturn(r, ok)
  \/ \E r \in DOMAIN runs, ok \in BOOLEAN : CreateReturn(r, ok)
  \/ \E r \in DOMAIN runs : ReadReturn(r)
  \/ \E r \in DOMAIN runs, ok \in BOOLEAN : PushReturn(r, ok)
  \/ \E r \in DOMAIN runs, ok \in BOOLEAN : Fetch2Return(r, ok)
  \/ \E r \in DOMAIN runs, ok \in BOOLEAN : ModifyReturn(r, ok)
  \/ \E l \in Lists, j \in 1..2 : RemoteComplete(l, j)
  \/ \E l \in Lists, j \in 1..2 : RemoteRemove(l, j)
  \/ \E path \in Paths, i \in 1..MaxLines : UserToggle(path, i)
  \/ UnmarkFire
  \/ HandleFileModify
  \/ \E t \in timers : DebounceFire(t)
  \/ \E s \in DOMAIN scans : ScanReadReturn(s)
  \/ \E s \in DOMAIN scans, ok \in BOOLEAN : ScanPushReturn(s, ok)

SpecPlugin == InitOne /\ [][NextPlugin]_vars

\* The plugin with a token or none and one source or none.  Every awaited call of a
\* pass returns or throws, the vault delivers every report, every timeout fires, and
\* every read and update of a scan returns or throws
InitFair == InitOne \/ InitEarly

SpecFair ==
  /\ InitFair
  /\ [][NextPlugin]_vars
  /\ WF_vars(\E r \in DOMAIN runs, ok \in BOOLEAN : Fetch1Return(r, ok))
  /\ WF_vars(\E r \in DOMAIN runs, ok \in BOOLEAN : CreateFolderReturn(r, ok))
  /\ WF_vars(\E r \in DOMAIN runs, ok \in BOOLEAN : CreateReturn(r, ok))
  /\ WF_vars(\E r \in DOMAIN runs : ReadReturn(r))
  /\ WF_vars(\E r \in DOMAIN runs, ok \in BOOLEAN : PushReturn(r, ok))
  /\ WF_vars(\E r \in DOMAIN runs, ok \in BOOLEAN : Fetch2Return(r, ok))
  /\ WF_vars(\E r \in DOMAIN runs, ok \in BOOLEAN : ModifyReturn(r, ok))
  /\ WF_vars(UnmarkFire)
  /\ WF_vars(HandleFileModify)
  /\ WF_vars(\E t \in timers : DebounceFire(t))
  /\ WF_vars(\E s \in DOMAIN scans : ScanReadReturn(s))
  /\ WF_vars(\E s \in DOMAIN scans, ok \in BOOLEAN : ScanPushReturn(s, ok))

(***************************************************************************)
(* One run of runSync over two sources: the project and the My Tasks list  *)
(***************************************************************************)
InitAll ==
  /\ InitPlugin
  /\ \E hide \in BOOLEAN :
       settings = Settings(TRUE, <<P1, P2>>,
                           [showDueDates |-> FALSE, showAssignees |-> FALSE,
                            showCompletedTasks |-> ~hide])
  /\ \E one \in {NoFile, File(NoteOne(SP))}, two \in {NoFile, File(NoteTwo("x"))} :
       files = [p \in Paths |-> IF p = P1.notePath THEN one ELSE two]
  /\ folders \in {{}, {FolderOf(P1.notePath)}}
  /\ ((\E p \in Paths : files[p].exists) => folders # {})
  /\ \E c \in BOOLEAN :
       remote = [l \in Lists |->
                   IF l = "p1" THEN <<TaskOne(c)>>
                   ELSE <<Task(<<"2">>, <<"b">>, FALSE, <<>>, <<>>, <<>>)>>]

SpecAll == InitAll /\ [][Next]_vars

(***************************************************************************)
(* The change detector on its own: two sources, the user's edits of their  *)
(* notes, the events, the timeouts and the scans; runSync is not triggered *)
(***************************************************************************)
\* the note of the project with the lines of two tasks
NoteDetect ==
  << H2 \o <<"a">>, Box(SP) \o <<"a">> \o Comment(<<"1">>),
     Box(SP) \o <<"b">> \o Comment(<<"2">>) >>

InitDetect ==
  /\ InitPlugin
  /\ settings = Settings(TRUE, <<P1, P2>>,
                         [showDueDates |-> FALSE, showAssignees |-> FALSE,
                          showCompletedTasks |-> TRUE])
  /\ files = [p \in Paths |-> IF p = P1.notePath THEN File(NoteDetect)
                                ELSE File(NoteTwo(SP))]
  /\ folders = {FolderOf(P1.notePath)}
  /\ remote = [l \in Lists |->
                 IF l = "p1"
                   THEN <<TaskOne(FALSE),
                          Task(<<"2">>, <<"b">>, FALSE, <<>>, <<>>, <<InSection("p1", <<"a">>)>>)>>
                   ELSE <<Task(<<"2">>, <<"b">>, FALSE, <<>>, <<>>, <<>>)>>]

NextDetect ==
  \/ \E path \in Paths, i \in 1..MaxLines : UserToggleWithin(path, i, MaxFlips)
  \/ HandleFileModify
  \/ \E t \in timers : DebounceFire(t)
  \/ \E s \in DOMAIN scans : ScanReadReturn(s)
  \/ \E s \in DOMAIN scans, ok \in BOOLEAN : ScanPushReturn(s, ok)

SpecDetect == InitDetect /\ [][NextDetect]_vars

(***************************************************************************)
(* The change detector while the user also removes and adds task lines     *)
(***************************************************************************)
\* the task lines the user adds: the line of task 2 again, or the line of a third task
AddedLines ==
  {Box(c) \o <<"b">> \o Comment(g) : c \in {SP, "x"}, g \in {<<"2">>, <<"3">>}}

\* the user removes line i of the note
UserRemoveLine(path, i) ==
  /\ userEdits < MaxScanEdits
  /\ files[path].exists
  /\ i \in DOMAIN files[path].content
  /\ files' = [files EXCEPT ![path].content = RemoveAt(@, i)]
  /\ inflight' = Append(inflight, Modified(path, FALSE))
  /\ userEdits' = userEdits + 1
  /\ settled' = [settled EXCEPT ![path] = FALSE]
  /\ UNCHANGED <<settings, intervalVars, codec, flip, folders, remote, now, isSyncing,
                 fileModifiedBySync, debounce, timerVars, lastKnownState, scans, scanVars,
                 runs, nTriggers, remoteEdits, notices, lastPass, lastRun>>

\* the user adds a task line at the end of the note
UserAddLine(path, line) ==
  /\ userEdits < MaxScanEdits
  /\ files[path].exists
  /\ Len(files[path].content) < Len(NoteDetect)
  /\ files' = [files EXCEPT ![path].content = Append(@, line)]
  /\ inflight' = Append(inflight, Modified(path, FALSE))
  /\ userEdits' = userEdits + 1
  /\ settled' = [settled EXCEPT ![path] = FALSE]
  /\ UNCHANGED <<settings, intervalVars, codec, flip, folders, remote, now, isSyncing,
                 fileModifiedBySync, debounce, timerVars, lastKnownState, scans, scanVars,
                 runs, nTriggers, remoteEdits, notices, lastPass, lastRun>>

\* the project note is edited; the other note is left as it is
NextScan ==
  \/ \E i \in 1..MaxLines : UserToggleWithin(P1.notePath, i, MaxScanEdits)
  \/ \E i \in 1..MaxLines : UserRemoveLine(P1.notePath, i)
  \/ \E line \in AddedLines : UserAddLine(P1.notePath, line)
  \/ HandleFileModify
  \/ \E t \in timers : DebounceFire(t)
  \/ \E s \in DOMAIN scans : ScanReadReturn(s)
  \/ \E s \in DOMAIN scans, ok \in BOOLEAN : ScanPushReturn(s, ok)

SpecScan == InitDetect /\ [][NextScan]_vars

\* The vault delivers every report, every timeout fires, and every read and every
\* update returns or throws
SpecLive ==
  /\ InitDetect
  /\ [][NextDetect]_vars
  /\ WF_vars(HandleFileModify)
  /\ WF_vars(\E t \in timers : DebounceFire(t))
  /\ WF_vars(\E s \in DOMAIN scans : ScanReadReturn(s))
  /\ WF_vars(\E s \in DOMAIN scans, ok \in BOOLEAN : ScanPushReturn(s, ok))

(***************************************************************************)
(* The codec on its own: formatTaskLine applied to a task, parseTaskLine   *)
(* applied to a line, the line typed by hand or made by formatTaskLine     *)
(***************************************************************************)
\* the parts of a typed checkbox line: a title, a due date, an assignee, an identifier
Parts ==
  { <<"a">>,
    <<DUE, SP, "2024-01-15">>,
    <<WHO, SP, "b">>,
    <<COPEN, SP, ASANA, "1", SP, CCLOSE>> }

\* the sequences of distinct parts
PartOrders ==
  UNION {{o \in [1..n -> Parts] : \A i \in 1..n, j \in 1..n : i # j => o[i] # o[j]} :
           n \in 1..Cardinality(Parts)}

\* the parts from part i on, each after one space
RECURSIVE Spaced(_, _)
Spaced(order, i) ==
  IF i > Len(order) THEN <<>> ELSE <<SP>> \o order[i] \o Spaced(order, i + 1)

\* checkbox lines with the parts in every order
LinePool == {Sub(Box(c), 1, 5) \o Spaced(o, 1) : c \in {SP, "x"}, o \in PartOrders}

\* tasks as Asana reports them; a name may hold any character, a marker glyph included
CodecTasks ==
  { Task(gid, name, completed, due, assignee, <<>>) :
      gid \in {<<"1">>, <<"1", "2">>},
      name \in {<<"a">>, <<"a", SP, "b">>, <<"a", SP, WHO, SP, "b">>},
      completed \in BOOLEAN,
      due \in {<<>>, <<"2024-01-15">>},
      assignee \in {<<>>, <<"a", SP, "b">>} }

CodecInputs ==
  {[pc |-> "line", formatted |-> FALSE, task |-> Task(<<>>, <<>>, FALSE, <<>>, <<>>, <<>>),
    showDueDates |-> FALSE, showAssignees |-> FALSE, line |-> l, parsed |-> NoTask] :
     l \in LinePool}
  \cup
  {[pc |-> "task", formatted |-> FALSE, task |-> t,
    showDueDates |-> o[1], showAssignees |-> o[2], line |-> <<>>, parsed |-> NoTask] :
     t \in CodecTasks, o \in BOOLEAN \X BOOLEAN}

InitCodec ==
  /\ InitFields
  /\ settings = Settings(TRUE, <<P1>>, [showDueDates |-> TRUE, showAssignees |-> TRUE,
                                        showCompletedTasks |-> TRUE])
  /\ files = [p \in Paths |-> NoFile]
  /\ folders = {}
  /\ remote = [l \in Lists |-> <<>>]
  /\ codec \in CodecInputs

\* formatTaskLine(task, showDueDates, showAssignees)
FormatTask ==
  /\ codec.pc = "task"
  /\ codec' = [codec EXCEPT !.pc = "line", !.formatted = TRUE,
                            !.line = formatTaskLine(codec.task, codec.showDueDates,
                                                    codec.showAssignees)]
  /\ UNCHANGED <<settings, intervalVars, files, folders, remote, now, isSyncing, fileModifiedBySync,
                 inflight, debounce, timerVars, lastKnownState, scans, scanVars, runs,
                 nTriggers, remoteEdits, userEdits, notices, settled, lastPass, lastRun,
                 flip>>

\* parseTaskLine(line, 0)
ParseLine ==
  /\ codec.pc = "line"
  /\ codec' = [codec EXCEPT !.pc = "parsed", !.parsed = parseTaskLine(codec.line, 0)]
  /\ UNCHANGED <<settings, intervalVars, files, folders, remote, now, isSyncing, fileModifiedBySync,
                 inflight, debounce, timerVars, lastKnownState, scans, scanVars, runs,
                 nTriggers, remoteEdits, userEdits, notices, settled, lastPass, lastRun,
                 flip>>

NextCodec == FormatTask \/ ParseLine

SpecCodec == InitCodec /\ [][NextCodec]_vars

(***************************************************************************)
(* The auto-sync timer: the interval setting of the settings tab,          *)
(* restartSyncInterval and the timer's callback                            *)
(***************************************************************************)
Digits == <<"0", "1", "2", "3", "4", "5", "6", "7", "8", "9">>
IsDigit(t) == \E d \in DOMAIN Digits : Digits[d] = t
DigitOf(t) == (CHOOSE d \in DOMAIN Digits : Digits[d] = t) - 1

\* the number the digits s[i..j] spell
RECURSIVE Decimal(_, _, _)
Decimal(s, i, j) == IF j < i THEN 0 ELSE 10 * Decimal(s, i, j - 1) + DigitOf(s[j])

\* parseInt(value, 10): leading white space, a sign, the digits up to the first other
\* character; NaN when there is no digit
ParseInt(value) ==
  With(SkipSpace(value, 1), LAMBDA p :
    With(IF At(value, p, "-") \/ At(value, p, "+") THEN p + 1 ELSE p, LAMBDA from :
      With({j \in from..Len(value) : \A k \in from..j : IsDigit(value[k])}, LAMBDA ends :
        IF ends = {} THEN [nan |-> TRUE, num |-> 0]
        ELSE [nan |-> FALSE,
              num |-> IF At(value, p, "-") THEN 0 - Decimal(value, from, Max(ends))
                      ELSE Decimal(value, from, Max(ends))])))

\* what the user types into the interval field
TypedValues ==
  { <<>>, <<"a">>, <<"-", "1">>, <<"0">>, <<"1">>, <<"2">>, <<"1", "0">>, <<SP, "2", "a">> }

\* window.clearInterval(id)
ClearInterval(active, id) == {t \in active : t.id # id}

\* restartSyncInterval()
RestartSyncInterval ==
  \E cleared \in {IF syncIntervalId # 0 THEN ClearInterval(intervals, syncIntervalId)
                   ELSE intervals} :
    IF settings.syncIntervalMinutes > 0
      THEN \E id \in {FreshId(cleared)} :
             /\ intervals' = cleared \cup {Interval(id, settings.syncIntervalMinutes)}
             /\ syncIntervalId' = id
      ELSE /\ intervals' = cleared
           /\ syncIntervalId' = 0

\* onChange of the interval field, up to "await this.plugin.saveSettings()"
ChangeInterval(value) ==
  /\ nChanges < MaxChanges
  /\ nChanges' = nChanges + 1
  /\ \E parsed \in {ParseInt(value)} :
       IF ~parsed.nan /\ parsed.num >= 0
         THEN /\ settings' = [settings EXCEPT !.syncIntervalMinutes = parsed.num]
              /\ saving' = saving + 1
         ELSE UNCHANGED <<settings, saving>>
  /\ UNCHANGED <<syncIntervalId, intervals, files, folders, remote, now, isSyncing,
                 fileModifiedBySync, inflight, debounce, timerVars, lastKnownState, scans,
                 scanVars, runs, nTriggers, remoteEdits, userEdits, notices, settled,
                 lastPass, lastRun, flip, codec>>

\* saveSettings returned, and onChange calls restartSyncInterval; or it threw, and
\* onChange ends there
SaveReturn(ok) ==
  /\ saving > 0
  /\ saving' = saving - 1
  /\ IF ok THEN RestartSyncInterval ELSE UNCHANGED <<syncIntervalId, intervals>>
  /\ UNCHANGED <<settings, nChanges, files, folders, remote, now, isSyncing,
                 fileModifiedBySync, inflight, debounce, timerVars, lastKnownState, scans,
                 scanVars, runs, nTriggers, remoteEdits, userEdits, notices, settled,
                 lastPass, lastRun, flip, codec>>

\* the callback of an active interval timer: "() => this.runSync()"
IntervalFire(t) ==
  /\ t \in intervals
  /\ nTriggers < MaxTriggers
  /\ RunSync

\* a plugin loaded with the default settings (no token, no source) and an interval
InitTimer ==
  /\ InitCore
  /\ codec = NoCodec
  /\ \E minutes \in {0, DefaultMinutes} :
       /\ settings = [Settings(FALSE, <<>>, [showDueDates |-> TRUE, showAssignees |-> TRUE,
                                            showCompletedTasks |-> FALSE])
                        EXCEPT !.syncIntervalMinutes = minutes]
       /\ InitInterval(minutes)
  /\ files = [p \in Paths |-> NoFile]
  /\ folders = {}
  /\ remote = [l \in Lists |-> <<>>]

NextTimer ==
  \/ \E value \in TypedValues : ChangeInterval(value)
  \/ \E ok \in BOOLEAN : SaveReturn(ok)
  \/ \E t \in intervals : IntervalFire(t)
  \/ UnmarkFire

SpecTimer == InitTimer /\ [][NextTimer]_vars

(***************************************************************************)
(* Properties of one reconciliation pass, read from the record of the     *)
(* syncProject call that ended last                                        *)
(***************************************************************************)
PassEnded == lastPass.n > 0
\* syncProject returned its stats
Returned == PassEnded /\ lastPass.outcome = "ok"
\* ... from the bidirectional branch, the note having existed
Merged == Returned /\ ~lastPass.bootstrap
\* both loops over the lines ran: the second fetch returned
Rebuilt == PassEnded /\ lastPass.fetched2

PassProject == settings.syncedProjects[lastPass.idx]
NoteNow == files[lastPass.path].content

Count(seq, x) == Cardinality({j \in DOMAIN seq : seq[j] = x})
Gids(tasks) == {tasks[j].gid : j \in DOMAIN tasks}
Carries(line, gid) == ASANA_GID_REGEX(line) = [ok |-> TRUE, gid |-> gid]
CarriesAny(line) == ASANA_GID_REGEX(line).ok

\* the identifier -> task line map Step 1 builds from the note the pass read
LocalMap == existingTaskMap(parseNoteContent(lastPass.existing))

\* entry j of LocalMap is in the first fetch with the other completion value
Conflicting(local, j) ==
  \E k \in DOMAIN lastPass.first :
    /\ lastPass.first[k].gid = local[j].key
    /\ lastPass.first[k].completed # local[j].val.completed

UpdatesFor(gid) == {k \in DOMAIN lastPass.pushed : lastPass.pushed[k].gid = gid}

\* gid has a line in the note, and its lines are task lines with the checkbox at c
Shows(note, gid, c) ==
  /\ \E i \in DOMAIN note : Carries(note[i], gid)
  /\ \A i \in DOMAIN note :
       Carries(note[i], gid) =>
         /\ parseTaskLine(note[i], i - 1).ok
         /\ parseTaskLine(note[i], i - 1).completed = c

\* the list reports gid with the completion value c
Remote(list, gid, c) ==
  \E k \in DOMAIN remote[list] : remote[list][k].gid = gid /\ remote[list][k].completed = c

C4_RemoteToLocal ==
  (Merged /\ remoteEdits = 0 /\ lastPass.options.showCompletedTasks) =>
    \E local \in {LocalMap} :
      \A j \in DOMAIN local :
        (/\ ~local[j].val.completed
         /\ \E k \in DOMAIN lastPass.first :
              lastPass.first[k].gid = local[j].key /\ lastPass.first[k].completed) =>
          /\ Shows(NoteNow, local[j].key, TRUE)
          /\ Remote(ListOf(PassProject), local[j].key, TRUE)

\* C7: a line that parseTaskLine rejects, the sync-timestamp line apart, is in the
\* rebuilt content as often as it was in the note
C7_OpaqueUntouched ==
  Merged =>
    \A i \in DOMAIN lastPass.existing :
      (/\ ~parseTaskLine(lastPass.existing[i], i - 1).ok
       /\ ~StartsWith(lastPass.existing[i], <<SYNCKEY>>)) =>
        Count(lastPass.newContent, lastPass.existing[i])
          >= Count(lastPass.existing, lastPass.existing[i])

\* no line of the note carries the identifier of a task the refreshed set reports completed
NoCompletedLine ==
  \A i \in DOMAIN NoteNow :
    \A k \in DOMAIN lastPass.refreshed :
      lastPass.refreshed[k].completed => ~Carries(NoteNow[i], lastPass.refreshed[k].gid)

SpanOf(note, p) ==
  IF \E q \in 1..p : StartsWith(note[q], H2)
    THEN Max({q \in 1..p : StartsWith(note[q], H2)}) ELSE 0

\* One group of new tasks went where its section is: with a line of before matching
\* the heading, after is before with taskLines put in after that line, no "## " line
\* between the two, the next line a "## " line or none, and the span the lines are in
\* is that of a heading with the section's name
GroupPlaced(before, after, sectionName, taskLines) ==
  \E h \in {SectionIndex(before, sectionName)} :
    (sectionName # UNSECTIONED /\ h > 0) =>
      \E at \in (h + 1)..(Len(before) + 1) :
        /\ after = Sub(before, 1, at - 1) \o taskLines \o Sub(before, at, Len(before))
        /\ \A q \in (h + 1)..(at - 1) : ~StartsWith(before[q], H2)
        /\ at = Len(before) + 1 \/ StartsWith(before[at], H2)
        /\ SpanOf(before, at - 1) > 0
        /\ SectionNameOf(before[SpanOf(before, at - 1)]) = sectionName

\* the groups from group i on went where their sections are, and the lines that
\* result are the content the pass built
RECURSIVE GroupsPlaced(_, _, _, _)
GroupsPlaced(lines, groups, i, opts) ==
  IF i > Len(groups) THEN lines = lastPass.newContent
  ELSE \E after \in {PlaceGroup(lines, groups[i].key, groups[i].val, opts)} :
         /\ GroupPlaced(lines, after, groups[i].key,
                        FormatAll(groups[i].val, opts.showDueDates, opts.showAssignees))
         /\ GroupsPlaced(after, groups, i + 1, opts)

\* C9: the lines of the new tasks of a section that has a matching line among the
\* rewritten lines are inserted after that line and immediately before the next "## "
\* line (at the end when there is none), inside the span of the matching section
C9_SectionPlacement ==
  Rebuilt =>
    \E groups \in {GroupBySection(lastPass.newTasks, 1, PassProject.projectGid, <<>>)} :
      GroupsPlaced(lastPass.rewritten, groups, 1, lastPass.options)

\* a task line without an identifier, as parseTaskLine reads it
Unidentified(line) ==
  With(parseTaskLine(line, 0), LAMBDA parsed : parsed.ok /\ parsed.asanaGid = <<>>)

\* C17: a task line without an identifier is in the content a pass built, and in the
\* note after the pass, as often as it was in the note; every update of a pass and of a scan is for the identifier of a task
\* line that carries it
C17_UnidentifiedKept ==
  /\ Merged =>
       \A i \in DOMAIN lastPass.existing :
         Unidentified(lastPass.existing[i]) =>
           /\ Count(lastPass.newContent, lastPass.existing[i])
                >= Count(lastPass.existing, lastPass.existing[i])
           /\ Count(NoteNow, lastPass.existing[i])
                >= Count(lastPass.existing, lastPass.existing[i])
  /\ (PassEnded /\ ~lastPass.bootstrap) =>
       \E local \in {LocalMap} :
         \A k \in DOMAIN lastPass.pushed : MapHas(local, lastPass.pushed[k].gid)
  /\ lastScan.n > 0 =>
       \A k \in DOMAIN lastScan.pushed : MapHas(lastScan.current, lastScan.pushed[k].gid)

\* the lines of a document that parseTaskLine reads as task lines
TaskLines(doc) == {i \in DOMAIN doc : parseTaskLine(doc[i], i - 1).ok}

\* C18: a pass that found no note and returned has created the note, with its folder,
\* has made one fetch and no update, and returns updated = 0, completionChanges = 0
\* and added = the fetched tasks the hide-completed filter lets through = the task
\* lines of the new note
C18_BootstrapResult ==
  (Returned /\ lastPass.bootstrap) =>
    /\ files[lastPass.path] = File(lastPass.newContent)
    /\ FolderOf(lastPass.path) \in folders
    /\ lastPass.calls = <<FetchCall>>
    /\ lastPass.pushed = <<>>
    /\ ~lastPass.fetched2
    /\ lastPass.stats.updated = 0
    /\ lastPass.stats.completionChanges = 0
    /\ lastPass.stats.added
         = Cardinality({k \in DOMAIN lastPass.first :
                          ~HideCompleted(lastPass.options, lastPass.first[k])})
    /\ lastPass.stats.added = Cardinality(TaskLines(lastPass.newContent))

\* C19: a pass that rebuilt the content called vault.modify if and only if the content
\* differs from the content it read; without the call the note is as it was read and
\* no "modify" event is pending
C19_ConditionalWrite ==
  Rebuilt =>
    /\ lastPass.modifyCalled <=> (lastPass.newContent # lastPass.existing)
    /\ lastPass.wrote => lastPass.modifyCalled
    /\ ~lastPass.modifyCalled =>
         /\ NoteNow = lastPass.existing
         /\ \A k \in DOMAIN inflight : inflight[k].kind # "modify"

\* a pass rewrote lines of the note, the content came out as it was read, nothing was
\* written
C19_Witness ==
  /\ Merged
  /\ lastPass.stats.updated > 0
  /\ lastPass.newContent = lastPass.existing
  /\ ~lastPass.modifyCalled
  /\ ~lastPass.wrote

\* line i of the document is in its frontmatter: the first line is the fence and the
\* closing fence is not before line i
InFrontmatter(doc, i) ==
  /\ doc[1] = FENCE
  /\ \A j \in 2..(i - 1) : doc[j] # FENCE

FailedPushes == {k \in DOMAIN lastPass.pushed : ~lastPass.pushed[k].ok}

\* C21 as amended: a pass in which an update of Step 1 failed has still issued one update
\* for every conflicting identifier and then the second fetch; it ends in failure only
\* when the second fetch or the write failed; when the second fetch returned, the
\* content is rebuilt and written if and only if it differs; completionChanges counts
\* the updates that succeeded
C21_PushFailureTolerated ==
  (PassEnded /\ ~lastPass.bootstrap /\ FailedPushes # {}) =>
    /\ \E local \in {LocalMap} :
         \A j \in DOMAIN local :
           Conflicting(local, j) => Cardinality(UpdatesFor(local[j].key)) = 1
    /\ Len(lastPass.calls) = Len(lastPass.pushed) + 2
    /\ lastPass.calls[Len(lastPass.calls)] = FetchCall
    /\ lastPass.outcome = "failed" =>
         (~lastPass.fetched2 \/ (lastPass.modifyCalled /\ ~lastPass.wrote))
    /\ lastPass.fetched2 =>
         /\ lastPass.newContent
              = Merge(lastPass.existing, lastPass.refreshed, PassProject, lastPass.options,
                      lastPass.clock).newLines
         /\ lastPass.modifyCalled <=> (lastPass.newContent # lastPass.existing)
    /\ lastPass.stats.completionChanges
         = Len(lastPass.pushed) - Cardinality(FailedPushes)

\* the first of two updates of a pass failed, the second succeeded, and the pass wrote
\* the note
C21_Witness ==
  /\ Merged /\ lastPass.wrote
  /\ Len(lastPass.pushed) = 2
  /\ ~lastPass.pushed[1].ok
  /\ lastPass.pushed[2].ok
  /\ lastPass.stats.completionChanges = 1

\* C21 as stated: completionChanges counts one for every update the pass issued
C21_AsStated ==
  (PassEnded /\ ~lastPass.bootstrap /\ FailedPushes # {}) =>
    lastPass.stats.completionChanges = Len(lastPass.pushed)

\* the remote calls of a syncProject call that have returned or thrown
Answered(run, pc) ==
  (IF pc = "fetch1" THEN 0 ELSE 1) + Len(run.pushed) + (IF run.fetched2 THEN 1 ELSE 0)

\* the calls are a fetch, then the updates in the order they returned, then at most one
\* more fetch, issued when every update had returned
InOrder(calls, pushed) ==
  /\ calls # <<>>
  /\ calls[1] = FetchCall
  /\ \A k \in DOMAIN pushed :
       /\ k + 1 \in DOMAIN calls
       /\ calls[k + 1] = UpdateCall(pushed[k].gid, pushed[k].completed)
  /\ \A k \in 2..Len(calls) :
       calls[k].op = "fetch" => (k = Len(calls) /\ Len(pushed) = k - 2)

\* C22: a pass on an existing note issues its remote calls in the order first fetch,
\* updates, second fetch, each after the one before it returned; vault.modify is called
\* only after the second fetch returned; the content is built from the tasks the
\* second fetch returned
C22_PassOrdering ==
  /\ \A r \in DOMAIN runs :
       ~runs[r].bootstrap =>
         /\ InOrder(runs[r].calls, runs[r].pushed)
         /\ Len(runs[r].calls) - Answered(runs[r], runs[r].pc)
              = IF runs[r].pc \in {"fetch1", "push", "fetch2"} THEN 1 ELSE 0
         /\ runs[r].pc = "modify" => runs[r].fetched2
  /\ (PassEnded /\ ~lastPass.bootstrap) =>
       /\ InOrder(lastPass.calls, lastPass.pushed)
       /\ lastPass.modifyCalled => lastPass.fetched2
       /\ lastPass.fetched2 =>
            /\ Len(lastPass.calls) = Len(lastPass.pushed) + 2
            /\ lastPass.refreshed = lastPass.second
            /\ lastPass.newContent
                 = Merge(lastPass.existing, lastPass.second, PassProject, lastPass.options,
                         lastPass.clock).newLines

\* a pass pushed, the second fetch returned other tasks than the first, and the note was
\* written with content the tasks of the first fetch would not have given
C22_Witness ==
  /\ Merged /\ lastPass.wrote
  /\ lastPass.pushed # <<>>
  /\ lastPass.second # lastPass.first
  /\ lastPass.newContent
       # Merge(lastPass.existing, lastPass.first, PassProject, lastPass.options,
               lastPass.clock).newLines

\* the lines of a document, outside the frontmatter and no "## " lines, in which
\* ASANA_GID_REGEX finds an identifier
Carrying(doc) ==
  {i \in DOMAIN doc :
     ~InFrontmatter(doc, i) /\ ~StartsWith(doc[i], H2) /\ CarriesAny(doc[i])}

\* the task of the second fetch a line carries the identifier of, as a set
TaskOf(line) ==
  {k \in DOMAIN lastPass.refreshed : Carries(line, lastPass.refreshed[k].gid)}

\* the lines of the note the pass replaced by a formatted line
ReplacedLines ==
  {i \in Carrying(lastPass.existing) :
     \E k \in TaskOf(lastPass.existing[i]) :
       ~HideCompleted(lastPass.options, lastPass.refreshed[k])}

\* the lines of the note the pass dropped because the task is completed and hidden
DroppedLines ==
  {i \in Carrying(lastPass.existing) :
     \E k \in TaskOf(lastPass.existing[i]) :
       HideCompleted(lastPass.options, lastPass.refreshed[k])}

\* the tasks of the second fetch that no line of the note carries and the filter lets
\* through
InsertedTasks ==
  {k \in DOMAIN lastPass.refreshed :
     /\ ~HideCompleted(lastPass.options, lastPass.refreshed[k])
     /\ \A i \in Carrying(lastPass.existing) :
          ~Carries(lastPass.existing[i], lastPass.refreshed[k].gid)}

\* C23: updated is the number of lines of the note replaced by a formatted line; the
\* dropped lines are gone from the rewritten lines and counted by neither number; added
\* is the number of task lines Step 3 inserted, one for each new task
C23_StatsMatch ==
  Rebuilt =>
    /\ lastPass.stats.updated = Cardinality(ReplacedLines)
    /\ Cardinality({i \in DOMAIN lastPass.rewritten : CarriesAny(lastPass.rewritten[i])})
         = Cardinality({i \in DOMAIN lastPass.existing : CarriesAny(lastPass.existing[i])})
             - Cardinality(DroppedLines)
    /\ lastPass.stats.added
         = Cardinality({i \in DOMAIN lastPass.newContent : CarriesAny(lastPass.newContent[i])})
             - Cardinality({i \in DOMAIN lastPass.rewritten : CarriesAny(lastPass.rewritten[i])})
    /\ lastPass.stats.added = Cardinality(InsertedTasks)
    /\ lastPass.stats.added = Len(lastPass.newTasks)

\* a pass replaced a line, dropped another as completed and hidden, and kept a third
\* whose task the list does not report
C23_Witness ==
  /\ Merged /\ lastPass.wrote
  /\ ReplacedLines # {}
  /\ DroppedLines # {}
  /\ Cardinality(Carrying(lastPass.existing))
       > Cardinality(ReplacedLines) + Cardinality(DroppedLines)
  /\ lastPass.stats.updated = 1

\* the line that closes the frontmatter of a document whose first line is the fence,
\* 0 when no line does
CloseOf(doc) ==
  With({j \in 2..Len(doc) : doc[j] = FENCE}, LAMBDA fences :
    IF fences = {} THEN 0 ELSE Min(fences))

IsSyncLine(line) == StartsWith(line, <<SYNCKEY>>)

\* the lines with every sync-timestamp line replaced by the one of clock value t
Stamped(lines, t) ==
  [j \in DOMAIN lines |-> IF IsSyncLine(lines[j]) THEN SyncLine(t) ELSE lines[j]]

\* the frontmatter a pass at clock value t is to make of the frontmatter of the document
FrontmatterAt(doc, t) ==
  With(CloseOf(doc), LAMBDA close :
    IF close = 0 THEN <<FENCE>> \o Stamped(Tail(doc), t)
    ELSE <<FENCE>> \o Stamped(Sub(doc, 2, close - 1), t)
           \o (IF \E j \in 2..(close - 1) : IsSyncLine(doc[j]) THEN <<>>
               ELSE <<SyncLine(t)>>)
           \o <<FENCE>>)

IsHeading(line) == StartsWith(line, H1) \/ StartsWith(line, H2)

NewSectionOf(k) == SectionOf(lastPass.newTasks[k], PassProject.projectGid)

\* the line formatTaskLine makes of new task k
LineOfNew(k) ==
  formatTaskLine(lastPass.newTasks[k], lastPass.options.showDueDates,
                 lastPass.options.showAssignees)

\* the lines of the new content that carry the identifier of new task k
PlacesOf(k) ==
  {i \in DOMAIN lastPass.newContent :
     Carries(lastPass.newContent[i], lastPass.newTasks[k].gid)}

\* a section with no heading among the rewritten lines
HeadingNew(name) == name # UNSECTIONED /\ SectionIndex(lastPass.rewritten, name) = 0

\* a line Step 3 may have added: the line of a new task, the heading of a new section,
\* an empty line
AddedLine(line) ==
  \/ line = <<>>
  \/ \E k \in DOMAIN lastPass.newTasks : line = LineOfNew(k)
  \/ \E k \in DOMAIN lastPass.newTasks :
       HeadingNew(NewSectionOf(k)) /\ line = SectionHeader(NewSectionOf(k))

\* line i is past the rewritten lines and only added lines follow it
AtEnd(i) ==
  /\ i > Len(lastPass.rewritten)
  /\ \A j \in (i + 1)..Len(lastPass.newContent) : AddedLine(lastPass.newContent[j])

H2Lines(doc) == {i \in DOMAIN doc : StartsWith(doc[i], H2)}

\* C25: every new task has one line in the new content, the line formatTaskLine makes of
\* it; the line of a task without a section is at the end, past the rewritten lines,
\* with only added lines after it; the line of a task whose section has no heading among
\* the rewritten lines is under a heading added at the end (the heading, an empty line,
\* the lines of the section's new tasks), the only line with that heading and with no
\* other heading in between; the only headings added are those of the new sections
C25_NewSectionPlacement ==
  Rebuilt =>
    /\ \A k \in DOMAIN lastPass.newTasks :
         /\ Cardinality(PlacesOf(k)) = 1
         /\ \A i \in PlacesOf(k) : lastPass.newContent[i] = LineOfNew(k)
         /\ NewSectionOf(k) = UNSECTIONED => \A i \in PlacesOf(k) : AtEnd(i)
         /\ HeadingNew(NewSectionOf(k)) =>
              \E h \in DOMAIN lastPass.newContent :
                /\ lastPass.newContent[h] = SectionHeader(NewSectionOf(k))
                /\ \A g \in DOMAIN lastPass.newContent :
                     Trim(lastPass.newContent[g]) = SectionHeader(NewSectionOf(k)) => g = h
                /\ AtEnd(h)
                /\ h + 1 \in DOMAIN lastPass.newContent
                /\ lastPass.newContent[h + 1] = <<>>
                /\ \A i \in PlacesOf(k) :
                     /\ i > h + 1
                     /\ \A j \in (h + 1)..i : j \notin H2Lines(lastPass.newContent)
    /\ Cardinality(H2Lines(lastPass.newContent))
         = Cardinality(H2Lines(lastPass.rewritten))
             + Cardinality({NewSectionOf(k) : k \in {j \in DOMAIN lastPass.newTasks :
                                                       HeadingNew(NewSectionOf(j))}})

\* a pass wrote a note with two new tasks: one under the heading block of a new
\* section, one without a section after it
C25_Witness ==
  /\ Merged /\ lastPass.wrote
  /\ \E k \in DOMAIN lastPass.newTasks, u \in DOMAIN lastPass.newTasks :
       /\ HeadingNew(NewSectionOf(k))
       /\ NewSectionOf(u) = UNSECTIONED
       /\ \E i \in PlacesOf(k), j \in PlacesOf(u) : i < j /\ j = Len(NoteNow)

\* the lines of doc that carry gid
LinesOf(doc, gid) == {i \in DOMAIN doc : Carries(doc[i], gid)}

\* no two tasks of the list have the same identifier
UniqueGids(tasks) ==
  \A j, k \in DOMAIN tasks : tasks[j].gid = tasks[k].gid => j = k

\* C31: when the note the pass read carries each identifier of the refreshed list on at
\* most one line and the refreshed list has no identifier twice, the document the pass
\* produces carries each of these identifiers on at most one line
C31_NoDuplicates ==
  (/\ Rebuilt /\ ~lastPass.bootstrap
   /\ UniqueGids(lastPass.second)
   /\ \A gid \in Gids(lastPass.second) : Cardinality(LinesOf(lastPass.existing, gid)) <= 1)
  => \A gid \in Gids(lastPass.second) : Cardinality(LinesOf(lastPass.newContent, gid)) <= 1

\* C32: when the first or the second fetch of a pass is rejected, syncProject throws
\* without a call of createFolder, create or modify, and the note is as it was when
\* the pass began
C32_FetchFailureLeavesNote ==
  (PassEnded /\ lastPass.rejected # {}) =>
    /\ lastPass.outcome = "failed"
    /\ ~lastPass.bootstrap
    /\ ~lastPass.modifyCalled
    /\ ~lastPass.wrote
    /\ files[lastPass.path] = lastPass.before

\* the second fetch of a pass over an existing note was rejected after an update of
\* Step 1 had been sent
C32_Witness ==
  /\ PassEnded
  /\ lastPass.rejected = {"fetch2"}
  /\ lastPass.before.exists
  /\ lastPass.pushed # <<>>

(***************************************************************************)
(* Properties of runSync and of the plugin around it                       *)
(***************************************************************************)
\* C1: a pass over an existing note that follows a pass of the same source, with no
\* change of the remote list or of the note by anyone else since that pass began,
\* leaves the content as it is, writes nothing and returns zeros
C1_NoOpStability ==
  (Merged /\ lastPass.quiet) =>
    /\ lastPass.newContent = lastPass.existing
    /\ ~lastPass.wrote
    /\ lastPass.stats = ZeroStats

\* C5: no debounce timeout and no scan is due to the report of an engine write
C5_NoRetrigger ==
  /\ \A p \in Paths : debounce[p] # "sync"
  /\ \A s \in DOMAIN scans : scans[s].origin # "sync"

\* C6: at most one call of runSync is inside syncAllProjects; a trigger that finds
\* the flag set changes nothing; a pass begins only in the step of a trigger that
\* found the flag clear
C6_NoOverlap ==
  /\ [](Len(runs) <= 1 /\ (runs # <<>> => isSyncing))
  /\ [][(isSyncing /\ nTriggers' # nTriggers) =>
          UNCHANGED <<settings, intervalVars, files, folders, remote, now, isSyncing, fileModifiedBySync,
                      inflight, debounce, lastKnownState, scans, runs, remoteEdits,
                      userEdits, notices, settled, lastPass, lastRun>>]_vars
  /\ [][(\E r \in DOMAIN runs' : \A q \in DOMAIN runs : runs[q].n # runs'[r].n) =>
          (~isSyncing /\ nTriggers' = nTriggers + 1)]_vars

\* a trigger came while a pass was running
C6_Witness ==
  /\ isSyncing
  /\ Len(runs) = 1
  /\ nTriggers > runs[1].n

Upto(n) == [j \in 1..n |-> j]

\* C10: syncProject is invoked for the sources in order, a source that threw included
\* or not; a pass that threw wrote nothing, and its failure is shown with its name
C10_FailureIsolation ==
  /\ \A r \in DOMAIN runs :
       /\ runs[r].invoked = Upto(runs[r].idx)
       /\ \A i \in runs[r].failed :
            /\ i < runs[r].idx
            /\ FailedNotice(settings.syncedProjects[i].projectName) \in notices
  /\ (lastRun.n > 0 /\ settings.asanaAccessToken) =>
       /\ lastRun.invoked = Upto(Len(settings.syncedProjects))
       /\ \A i \in lastRun.failed :
            FailedNotice(settings.syncedProjects[i].projectName) \in notices
  /\ (PassEnded /\ lastPass.outcome = "failed") =>
       /\ ~lastPass.wrote
       /\ FailedNotice(PassProject.projectName) \in notices

\* the first source threw and the second one was synchronised
C10_Witness ==
  /\ lastRun.n > 0
  /\ 1 \in lastRun.failed
  /\ lastRun.invoked = <<1, 2>>
  /\ lastPass.idx = 2 /\ lastPass.outcome = "ok" /\ lastPass.wrote

(***************************************************************************)
(* Properties of the change detector                                       *)
(***************************************************************************)
\* C11: after the user flips the checkbox of a line that carries an identifier, with no
\* pass running, a scan issues an update for that identifier with the new value
C11_DetectorPushes == (~flip.pushed) ~> flip.pushed

\* the entries of the mapping a scan parsed whose value differs from the snapshot's
ChangedIn(scan) ==
  IF scan.last.has THEN Changed(scan.current, scan.last.state, 1) ELSE {}

\* the updates a scan issued for entry j of its mapping, with the entry's value
UpdatesOf(scan, j) ==
  {k \in DOMAIN scan.pushed :
     /\ scan.pushed[k].gid = scan.current[j].key
     /\ scan.pushed[k].completed = scan.current[j].val}

\* C12: a scan that ended issued one update for every identifier whose completion
\* differs from the snapshot, with the value it parsed, whichever of the updates
\* failed; and every failed update is reported
C12_PushFailuresIsolated ==
  /\ lastScan.n > 0 =>
       /\ Len(lastScan.pushed) = Cardinality(ChangedIn(lastScan))
       /\ \A j \in ChangedIn(lastScan) : Cardinality(UpdatesOf(lastScan, j)) = 1
       /\ (\E k \in DOMAIN lastScan.pushed : ~lastScan.pushed[k].ok) =>
            TaskFailedNotice \in notices
  /\ \A s \in DOMAIN scans :
       (\E k \in DOMAIN scans[s].pushed : ~scans[s].pushed[k].ok) =>
         TaskFailedNotice \in notices

\* a scan found two identifiers changed; its first update failed and it issued the second
C12_Witness ==
  /\ lastScan.n > 0
  /\ Len(lastScan.pushed) = 2
  /\ ~lastScan.pushed[1].ok
  /\ lastScan.pushed[1].gid # lastScan.pushed[2].gid

\* a scan of the path is between its read and its end
Scanning(p) == \E s \in DOMAIN scans : scans[s].path = p /\ scans[s].pc # "read"

\* C13: the scan that ended last left the mapping it parsed as the snapshot of its
\* path, whatever it pushed; and with no scan of a path under way the snapshot of the
\* path is the mapping of the latest read of the note by a scan
C13_SnapshotAdvances ==
  /\ lastScan.n > 0 =>
       lastKnownState[lastScan.path] = [has |-> TRUE, state |-> lastScan.current]
  /\ \A p \in Paths :
       (observed[p].has /\ ~Scanning(p)) => lastKnownState[p] = observed[p]

TimersOf(p) == {t \in timers : t.path = p}

\* C14: a path has at most one pending timeout, the one whose handle the property of
\* the path holds; every timeout set with none pending is followed by one scan: the
\* timeouts that began a burst are those that fired and the one pending; an event that
\* arrives while a timeout is pending replaces the timeout and starts no scan; a step
\* that changes the timeout of one path leaves the timeout of the other alone
C14_DebounceCollapse ==
  /\ [](\A p \in Paths :
          /\ Cardinality(TimersOf(p)) <= 1
          /\ \A t \in TimersOf(p) : t.id = debounceKey[p]
          /\ debounceKey[p] # 0 => TimersOf(p) # {}
          /\ bursts[p].begun = bursts[p].scanned + Cardinality(TimersOf(p)))
  /\ [][\A p \in Paths :
          (TimersOf(p) # {} /\ debounceKey'[p] # 0 /\ debounceKey'[p] # debounceKey[p]) =>
            /\ Cardinality({t \in timers' : t.path = p}) = 1
            /\ \A t \in timers : t.path = p => t \notin timers'
            /\ scans' = scans
            /\ bursts'[p] = bursts[p]]_vars
  /\ [][\A p \in Paths, q \in Paths :
          (p # q /\ {t \in timers' : t.path = p} # TimersOf(p)) =>
            /\ {t \in timers' : t.path = q} = TimersOf(q)
            /\ debounceKey'[q] = debounceKey[q]]_vars

\* two edits of the project's note, none of the other note, and every event handled:
\* one timeout was set with none pending, it fired, and one scan ran
C14_Witness ==
  /\ userEdits = 2
  /\ inflight = <<>>
  /\ timers = {}
  /\ bursts[P1.notePath] = [begun |-> 1, scanned |-> 1]
  /\ bursts[P2.notePath] = [begun |-> 0, scanned |-> 0]
  /\ lastScan.n = 1

(***************************************************************************)
(* Properties of the codec                                                 *)
(***************************************************************************)
\* the first place of a token in a line, 0 when the line does not hold it
FirstAt(line, t) ==
  With({i \in DOMAIN line : line[i] = t}, LAMBDA at : IF at = {} THEN 0 ELSE Min(at))

\* a checkbox line whose markers are not in the order due date, assignee, identifier
\* comment, or whose identifier comment is followed by text
OutOfOrder(line) ==
  /\ CanToggle(line)
  /\ \E d \in {FirstAt(line, DUE)}, w \in {FirstAt(line, WHO)},
        c \in {FirstAt(line, COPEN)}, e \in {FirstAt(line, CCLOSE)} :
       \/ d > 0 /\ w > 0 /\ w < d
       \/ c > 0 /\ d > c
       \/ c > 0 /\ w > c
       \/ c > 0 /\ e > c /\ \E j \in (e + 1)..Len(line) : ~IsSpace(line[j])

\* C15: parseTaskLine returns none for a checkbox line whose markers are out of order
C15_StrictOrder ==
  (codec.pc = "parsed" /\ OutOfOrder(codec.line)) => ~codec.parsed.ok

\* C16: a task formatted with both display options on parses back to its title,
\* completion, due date, assignee name and identifier
C16_RoundTrip ==
  (codec.pc = "parsed" /\ codec.formatted /\ codec.showDueDates /\ codec.showAssignees) =>
    /\ codec.parsed.ok
    /\ codec.parsed.name = codec.task.name
    /\ codec.parsed.completed = codec.task.completed
    /\ codec.parsed.dueDate = codec.task.due_on
    /\ codec.parsed.assignee = codec.task.assignee
    /\ codec.parsed.asanaGid = codec.task.gid

\* C27: while a reconciliation pass is in progress no processCheckboxChanges call
\* starts, reads, pushes or ends
C27_NoScanDuringPass == [][isSyncing => (scans' = scans /\ lastScan' = lastScan)]_vars

\* C28: when the in-progress flag is set it is cleared later
C28_FlagReleased == isSyncing ~> ~isSyncing

\* the second call of runSync found the flag clear, ran, a source of it threw, and the
\* flag is clear again
C28_Witness ==
  /\ lastRun.n = 2
  /\ lastRun.failed # {}
  /\ ~isSyncing
  /\ runs = <<>>

\* C29: a path that is in the marker set is out of it later
C29_MarkersReleased ==
  \A p \in Paths : (p \in fileModifiedBySync) ~> (p \notin fileModifiedBySync)

\* a pass ran on the note, runSync ended, its timeout fired and the marker set is empty
C29_Witness ==
  /\ lastRun.n > 0
  /\ PassEnded
  /\ ~isSyncing
  /\ inflight = <<>>
  /\ fileModifiedBySync = {}

(***************************************************************************)
(* Properties of the compare loop                                          *)
(***************************************************************************)
\* the updates a scan has issued: those that returned or threw, and the awaited one
Issued(scan) ==
  {[gid |-> scan.pushed[j].gid, completed |-> scan.pushed[j].completed] :
     j \in DOMAIN scan.pushed}
  \cup (IF scan.pc = "push"
          THEN {[gid |-> scan.current[scan.pushAt].key,
                 completed |-> scan.current[scan.pushAt].val]}
          ELSE {})

\* the identifier is in the snapshot the scan found and in the document it read, with
\* different completion values, and the update carries the document's value
RealFlip(scan, u) ==
  /\ scan.last.has
  /\ \E j \in DOMAIN scan.last.state, k \in DOMAIN scan.current :
       /\ scan.last.state[j].key = u.gid
       /\ scan.current[k].key = u.gid
       /\ scan.last.state[j].val # scan.current[k].val
       /\ scan.current[k].val = u.completed

\* the scans at work and the last one that ended
ScansSeen ==
  {scans[s] : s \in DOMAIN scans}
  \cup (IF lastScan.n > 0
          THEN {[path |-> lastScan.path, pc |-> "end", origin |-> lastScan.origin,
                 current |-> lastScan.current, last |-> lastScan.last, pushAt |-> 0,
                 pushed |-> lastScan.pushed]}
          ELSE {})

C26_AutoSyncTimer ==
  /\ Cardinality(intervals) <= 1
  /\ \A t \in intervals : t.id = syncIntervalId
  /\ saving = 0 =>
       /\ settings.syncIntervalMinutes = 0 => intervals = {}
       /\ \A t \in intervals : t.ms = settings.syncIntervalMinutes * 60 * 1000

=============================================================================
